---- MODULE Spec2Model ----
(***************************************************************************)
(* Model of the persistence layer of the LinkedIn lead generation tool:    *)
(* the people / companies / outreach_messages tables (db/schema.py), the   *)
(* repositories that write them (db/repos), the enrichment step            *)
(* (pipelines/steps/enrich_companies.py), the persistence pipelines and    *)
(* the dedupe-people maintenance command (cli.py).                         *)
(*                                                                         *)
(* Text values are strings; SQL NULL / Python None is the string NULL.     *)
(* Row ids are positive integers, a NULL id is NoId.                       *)
(* A URL string is kept as its three parts: scheme, host labels and the    *)
(* remaining characters (path), each character a one-character token, so   *)
(* that normalisation is computed character by character as the code does. *)
(***************************************************************************)
EXTENDS Integers, Sequences, FiniteSets, TLC

\* ------------------------------------------------------------------------
\* Bounds of the model
\* ------------------------------------------------------------------------
MaxCalls == 3
MaxCompanies == 3
MaxPeople == 3
MaxMessages == 2
MaxBatch == 2
MaxRuns == 1

\* ------------------------------------------------------------------------
\* Values
\* ------------------------------------------------------------------------
NULL == "NULL"
EMPTY == ""
NoId == 0

TextVals == {"x", "y"}
NOW == "now"
DateVals == {"d1"}

\* The people columns the model tracks next to linkedin_profile, lookup_date
\* and company_id.  The upsert statement applies one and the same expression
\* to every listed column, and the merge loop one and the same test.
PersonCols == {"first_name", "email"}

\* ------------------------------------------------------------------------
\* URL strings and normalize_linkedin_profile_url
\* ------------------------------------------------------------------------
LowerChar(c) ==
  CASE c = "A" -> "a"
    [] c = "B" -> "b"
    [] c = "I" -> "i"
    [] c = "N" -> "n"
    [] c = "F" -> "f"
    [] OTHER -> c

\* unicodedata.normalize('NFKC', .) on the characters of the model: the
\* fullwidth letter folds to its ASCII letter, everything else is unchanged.
NFKCChar(c) == IF c = "FW_A" THEN "A" ELSE c

IsSpace(c) == c = " "
IsZeroWidth(c) == c \in {"ZWSP", "ZWNJ", "ZWJ"}

\* urllib.parse.unquote: "%" followed by two hex digits is replaced by the
\* character it encodes; any other "%" is kept.
HexPair(a, b) ==
  CASE a = "4" /\ b = "1" -> "A"
    [] a = "4" /\ b = "2" -> "B"
    [] a = "6" /\ b = "1" -> "a"
    [] a = "6" /\ b = "2" -> "b"
    [] a = "2" /\ b = "5" -> "%"
    [] a = "2" /\ b = "F" -> "/"
    [] a = "2" /\ b = "0" -> " "
    [] OTHER -> NULL

RECURSIVE unquote(_)
unquote(s) ==
  IF s = << >> THEN << >>
  ELSE IF Head(s) = "%" /\ Len(s) >= 3 /\ HexPair(s[2], s[3]) # NULL
       THEN <<HexPair(s[2], s[3])>> \o unquote(SubSeq(s, 4, Len(s)))
       ELSE <<Head(s)>> \o unquote(Tail(s))

MapSeq(F(_), s) == [i \in 1..Len(s) |-> F(s[i])]

RECURSIVE lstrip(_)
lstrip(s) == IF s # << >> /\ IsSpace(Head(s)) THEN lstrip(Tail(s)) ELSE s

RECURSIVE rstrip(_)
rstrip(s) ==
  IF s # << >> /\ IsSpace(s[Len(s)]) THEN rstrip(SubSeq(s, 1, Len(s) - 1)) ELSE s

strip(s) == lstrip(rstrip(s))

RECURSIVE rstripSlash(_)
rstripSlash(s) ==
  IF s # << >> /\ s[Len(s)] = "/" THEN rstripSlash(SubSeq(s, 1, Len(s) - 1)) ELSE s

RECURSIVE RemoveZeroWidth(_)
RemoveZeroWidth(s) ==
  IF s = << >> THEN << >>
  ELSE IF IsZeroWidth(Head(s)) THEN RemoveZeroWidth(Tail(s))
       ELSE <<Head(s)>> \o RemoveZeroWidth(Tail(s))

\* path.split('/') : the list of pieces between slashes (empty ones included)
RECURSIVE SplitSlash(_, _)
SplitSlash(s, cur) ==
  IF s = << >> THEN <<cur>>
  ELSE IF Head(s) = "/" THEN <<cur>> \o SplitSlash(Tail(s), << >>)
       ELSE SplitSlash(Tail(s), Append(cur, Head(s)))

NonEmptyParts(s) == SelectSeq(SplitSlash(s, << >>), LAMBDA p : p # << >>)

\* urlparse(url).path : the characters after the host up to the first "?" or "#"
RECURSIVE UrlPath(_)
UrlPath(rest) ==
  IF rest = << >> \/ Head(rest) \in {"?", "#"} THEN << >>
  ELSE <<Head(rest)>> \o UrlPath(Tail(rest))

LowerLabel(l) ==
  CASE l = "WWW" -> "www"
    [] l = "LinkedIn" -> "linkedin"
    [] OTHER -> l

\* host = netloc.lower().replace('www.', '').replace('de.linkedin.com', 'linkedin.com')
\* on a host given as its dot separated labels
RECURSIVE DropWww(_)
DropWww(h) ==
  IF h = << >> THEN << >>
  ELSE IF Head(h) = "www" /\ Len(h) > 1 THEN DropWww(Tail(h))
       ELSE <<Head(h)>> \o DropWww(Tail(h))

RECURSIVE DropDe(_)
DropDe(h) ==
  IF Len(h) < 3 THEN h
  ELSE IF h[1] = "de" /\ h[2] = "linkedin" /\ h[3] = "com"
       THEN SubSeq(h, 2, Len(h))
       ELSE <<Head(h)>> \o DropDe(Tail(h))

NormHost(netloc) == DropDe(DropWww(MapSeq(LowerLabel, netloc)))

\* 'linkedin.com' in host
HasLinkedInMarker(h) ==
  \E i \in 1..(Len(h) - 1) : h[i] \in {"linkedin", "notlinkedin"} /\ h[i + 1] = "com"

StartsWithIn(path) ==
  Len(path) >= 4 /\ SubSeq(path, 1, 4) = <<"/", "i", "n", "/">>

Url(scheme, host, rest) == [scheme |-> scheme, host |-> host, rest |-> rest]

Canonical(slug) == Url("https", <<"linkedin", "com">>, <<"/", "i", "n", "/">> \o slug)

NoUrl == Url(NULL, << >>, << >>)

SlugOf_KeepCase(seg) ==
  RemoveZeroWidth(strip(MapSeq(NFKCChar, unquote(seg))))

SlugOf(seg) ==
  RemoveZeroWidth(MapSeq(LowerChar, strip(MapSeq(NFKCChar, unquote(seg)))))

\* urlparse leaves netloc empty when the string has no "//" after the scheme
\* (no scheme at all, or the string starts with "://")
Netloc(u) == IF u.scheme \in {NULL, EMPTY} THEN << >> ELSE u.host

normalize_linkedin_profile_url(u) ==
  IF u = NoUrl THEN NoUrl
  ELSE
    LET host == NormHost(Netloc(u))
        path == rstripSlash(UrlPath(u.rest))
        parts == NonEmptyParts(path)
    IN  IF host = << >> THEN NoUrl
        ELSE IF ~HasLinkedInMarker(host) \/ ~StartsWithIn(path) THEN NoUrl
        ELSE IF Len(parts) >= 2 /\ parts[1] = <<"i", "n">>
             THEN Canonical(SlugOf(parts[2]))
             ELSE Url("https", <<"linkedin", "com">>, path)

\* URL strings used as inputs
U_a == Canonical(<<"a">>)
U_b == Canonical(<<"b">>)
U_wwwA == Url("https", <<"www", "linkedin", "com">>, <<"/", "i", "n", "/", "A", "/">>)
U_dePct == Url("http", <<"de", "linkedin", "com">>, <<"/", "i", "n", "/", "%", "4", "1">>)
U_pct2 == Url("https", <<"linkedin", "com">>, <<"/", "i", "n", "/", "%", "2", "5", "4", "1">>)
U_pct2s == Url("https", <<"linkedin", "com">>, <<"/", "i", "n", "/", "%", "2", "5", "4", "1", "/">>)
U_pct1 == Canonical(<<"%", "4", "1">>)
U_other == Url("https", <<"example", "com">>, <<"/", "i", "n", "/", "a">>)
U_bare == Url(NULL, <<"linkedin", "com">>, <<"/", "i", "n", "/", "a">>)

\* ------------------------------------------------------------------------
\* State
\* ------------------------------------------------------------------------
VARIABLES
  people,      \* rows of table people
  companies,   \* rows of table companies
  outreach,    \* rows of table outreach_messages
  seq,         \* sqlite_sequence: last id handed out per AUTOINCREMENT table
  lastCall,    \* the last repository call / command: arguments and outcome
  hist,        \* what the calls made so far supplied and returned
  dd,          \* position and working data of cmd_dedupe_people
  en,          \* position and working data of EnrichAndPersistCompanies.run
  ing,         \* position and working data of the persistence pipelines
  xt,          \* position and working data of LinkedInDataExtractor
  queries      \* rows of table search_queries

vars == <<people, companies, outreach, seq, lastCall, hist, dd, en, ing, xt, queries>>

NoCall == [op |-> "none"]
NoRun == [pc |-> "idle"]

InitHist == [supplied |-> {}, rets |-> {}, calls |-> 0]

RowOf(tbl, id) == CHOOSE r \in tbl : r.id = id
HasRow(tbl, id) == \E r \in tbl : r.id = id
ReplaceRow(tbl, new) == {r \in tbl : r.id # new.id} \cup {new}

\* ------------------------------------------------------------------------
\* PeopleRepo
\* ------------------------------------------------------------------------
COALESCE(a, b) == IF a # NULL THEN a ELSE b

\* Plausible faults of the ON CONFLICT clause, used to test the properties.
ConflictValue_Overwrite(excluded, stored) == excluded
ConflictValue_FillIfNull(excluded, stored) == COALESCE(stored, excluded)

\* "col = COALESCE(excluded.col, people.col)"
ConflictValue(excluded, stored) == COALESCE(excluded, stored)

PersonArgs == [PersonCols -> TextVals \cup {NULL}]

\* The row the INSERT proposes ("excluded"): lookup_date is
\* COALESCE(?, datetime('now')), company_id is not named and stays NULL.
ExcludedPerson(id, url, args, lookup_date) ==
  [id |-> id, linkedin_profile |-> url, col |-> args,
   lookup_date |-> COALESCE(lookup_date, NOW), company_id |-> NoId]

PersonByUrl(tbl, url) == {r \in tbl : r.linkedin_profile = url}

\* INSERT ... ON CONFLICT(linkedin_profile) DO UPDATE SET ... RETURNING id
UpsertedPeople(tbl, id, url, args, lookup_date) ==
  LET ex == ExcludedPerson(id, url, args, lookup_date)
  IN  IF PersonByUrl(tbl, url) = {} THEN tbl \cup {ex}
      ELSE LET old == CHOOSE r \in tbl : r.linkedin_profile = url
           IN  ReplaceRow(tbl,
                 [old EXCEPT
                    !.col = [c \in PersonCols |-> ConflictValue(ex.col[c], old.col[c])],
                    !.lookup_date = ConflictValue(ex.lookup_date, old.lookup_date)])

UpsertReturn(tbl, url) == (CHOOSE r \in tbl : r.linkedin_profile = url).id

NoPerson == [id |-> NoId]

upsert_person(url, args, lookup_date) ==
  /\ hist.calls < MaxCalls
  /\ LET id == seq.people + 1
         before == IF PersonByUrl(people, url) = {} THEN NoPerson
                   ELSE CHOOSE r \in people : r.linkedin_profile = url
         after == UpsertedPeople(people, id, url, args, lookup_date)
         ret == UpsertReturn(after, url)
     IN  /\ people' = after
         /\ seq' = [seq EXCEPT !.people = id]
         /\ lastCall' = [op |-> "upsert_person", url |-> url, args |-> args,
                         lookup_date |-> lookup_date, before |-> before, ret |-> ret]
         /\ hist' = [supplied |-> hist.supplied \cup
                                    {<<url, c>> : c \in {k \in PersonCols : args[k] # NULL}},
                     rets |-> hist.rets \cup {<<url, ret>>},
                     calls |-> hist.calls + 1]
  /\ UNCHANGED <<companies, outreach, dd, en, ing, xt, queries>>

\* UPDATE people SET company_id = ? WHERE linkedin_profile = ?
LinkedPeople(tbl, url, company_id) ==
  {IF r.linkedin_profile = url THEN [r EXCEPT !.company_id = company_id] ELSE r : r \in tbl}

link_person_to_company(url, company_id) ==
  /\ hist.calls < MaxCalls
  /\ people' = LinkedPeople(people, url, company_id)
  /\ lastCall' = [op |-> "link_person_to_company", url |-> url, company_id |-> company_id]
  /\ hist' = [hist EXCEPT !.calls = @ + 1]
  /\ UNCHANGED <<companies, outreach, seq, dd, en, ing, xt, queries>>

PeopleUrls == {U_a, U_b}

InitPeople ==
  /\ people = {}
  /\ companies = {}
  /\ outreach = {}
  /\ seq = [people |-> 0, companies |-> 0]
  /\ lastCall = NoCall
  /\ hist = InitHist
  /\ dd = NoRun
  /\ en = NoRun
  /\ ing = NoRun
  /\ xt = NoRun
  /\ queries = {}

NextPeople ==
  \/ \E url \in PeopleUrls, args \in PersonArgs, ld \in DateVals \cup {NULL} :
       upsert_person(url, args, ld)
  \/ \E url \in PeopleUrls, cid \in 1..2 : link_person_to_company(url, cid)

SpecPeople == InitPeople /\ [][NextPeople]_vars

\* ------------------------------------------------------------------------
\* Properties of PeopleRepo.upsert_person (checked under SpecPeople)
\* ------------------------------------------------------------------------
UpsertConflict == lastCall.op = "upsert_person" /\ lastCall.before # NoPerson
UpsertedRow == CHOOSE r \in people : r.linkedin_profile = lastCall.url

C2_OneRowUnionOfFields ==
  /\ \A u \in PeopleUrls : Cardinality(PersonByUrl(people, u)) <= 1
  /\ \A pr \in hist.rets :
       /\ Cardinality(PersonByUrl(people, pr[1])) = 1
       /\ \A r \in PersonByUrl(people, pr[1]) : r.id = pr[2]
  /\ \A sc \in hist.supplied :
       \A r \in PersonByUrl(people, sc[1]) : r.col[sc[2]] # NULL
  /\ \A r \in people : r.lookup_date # NULL

\* the same identity was upserted twice with complementary fields: the first
\* call set first_name only, the later one email only
C2_Witness ==
  /\ UpsertConflict
  /\ lastCall.args["first_name"] = NULL /\ lastCall.args["email"] # NULL
  /\ lastCall.before.col["first_name"] # NULL /\ lastCall.before.col["email"] = NULL
  /\ UpsertedRow.col["first_name"] # NULL /\ UpsertedRow.col["email"] # NULL

\* ------------------------------------------------------------------------
\* CompaniesRepo
\* ------------------------------------------------------------------------
\* A companies row carries name, domain, website, the enrichment columns and
\* last_enriched_at.  Of the enrichment columns the model tracks legal_form,
\* industries_json and size_employees; update_enrichment treats the other
\* listed keys (locations_de_json, multinational, business_model_json,
\* products_json, recent_news_json) exactly like legal_form.  The provenance
\* columns of upsert_by_domain are written like website.
EnrichCols == {"legal_form", "industries_json", "size_employees"}
EnrichKeys == EnrichCols \cup {"domain", "website"}

Truthy(v) == v # NULL /\ v # EMPTY

\* Python "a or b"
Or(a, b) == IF Truthy(a) THEN a ELSE b

NewCompany(id, name, domain, website) ==
  [id |-> id, name |-> name, domain |-> domain, website |-> website,
   enr |-> [c \in EnrichCols |-> NULL], last_enriched_at |-> NULL]

\* "domain TEXT UNIQUE": no two rows hold the same non-null domain
DomainUnique(tbl) ==
  \A r1, r2 \in tbl : (r1.id # r2.id /\ r1.domain # NULL) => r1.domain # r2.domain

\* A plausible fault of the lookup, used to test the properties.
FindByDomain_Nothing(tbl, domain) == {}

\* SELECT id, name, website FROM companies WHERE domain = ?
FindByDomain(tbl, domain) == {r \in tbl : r.domain = domain}

\* safe_name = name or domain or "Unknown Company"
SafeName(name, domain) == Or(name, Or(domain, "Unknown Company"))

\* UPDATE companies SET name = COALESCE(?, name), website = COALESCE(?, website) ...
UpdatedByDomain(row, name, domain, website) ==
  [row EXCEPT !.name = COALESCE(SafeName(name, domain), row.name),
              !.website = COALESCE(website, row.website)]

\* A plausible fault, used to test the properties: without a domain the
\* row of the same name is looked up and returned.
UpsertByDomainResult_FindByName(tbl, lastId, name, domain, website) ==
  IF \E r \in tbl : r.name = SafeName(name, domain)
  THEN [tbl |-> tbl, ret |-> (CHOOSE r \in tbl : r.name = SafeName(name, domain)).id,
        lastId |-> lastId, err |-> NULL]
  ELSE [tbl |-> tbl \cup {NewCompany(lastId + 1, SafeName(name, domain), domain, website)},
        ret |-> lastId + 1, lastId |-> lastId + 1, err |-> NULL]

\* The table and the returned id after upsert_by_domain; err is the exception
\* the statement raises (the table is then left as it was).
UpsertByDomainResult(tbl, lastId, name, domain, website) ==
  IF Truthy(domain)
  THEN IF FindByDomain(tbl, domain) # {}
       THEN LET row == CHOOSE r \in FindByDomain(tbl, domain) : TRUE
            IN  [tbl |-> ReplaceRow(tbl, UpdatedByDomain(row, name, domain, website)),
                 ret |-> row.id, lastId |-> lastId, err |-> NULL]
       ELSE LET new == tbl \cup {NewCompany(lastId + 1, SafeName(name, domain), domain, website)}
            IN  IF DomainUnique(new)
                THEN [tbl |-> new, ret |-> lastId + 1, lastId |-> lastId + 1, err |-> NULL]
                ELSE [tbl |-> tbl, ret |-> NoId, lastId |-> lastId, err |-> "IntegrityError"]
  ELSE [tbl |-> tbl \cup {NewCompany(lastId + 1, SafeName(name, domain), NULL, NULL)},
        ret |-> lastId + 1, lastId |-> lastId + 1, err |-> NULL]

upsert_by_domain(name, domain, website) ==
  /\ hist.calls < MaxCalls
  /\ LET res == UpsertByDomainResult(companies, seq.companies, name, domain, website)
     IN  /\ Cardinality(res.tbl) <= MaxCompanies
         /\ companies' = res.tbl
         /\ seq' = [seq EXCEPT !.companies = res.lastId]
         /\ lastCall' = [op |-> "upsert_by_domain", name |-> name, domain |-> domain,
                         website |-> website, before |-> companies,
                         ret |-> res.ret, err |-> res.err]
  /\ hist' = [hist EXCEPT !.calls = @ + 1]
  /\ UNCHANGED <<people, outreach, dd, en, ing, xt, queries>>

Restrict(f, K) == [k \in K |-> f[k]]

\* A plausible fault of the collision guard, used to test the properties.
SafeFields_NoGuard(tbl, company_id, fields) == fields

\* safe_fields: the domain key is dropped when another row owns that domain
SafeFields(tbl, company_id, fields) ==
  IF /\ "domain" \in DOMAIN fields
     /\ Truthy(fields["domain"])
     /\ \E r \in FindByDomain(tbl, fields["domain"]) : r.id # company_id
  THEN Restrict(fields, DOMAIN fields \ {"domain"})
  ELSE fields

\* UPDATE companies SET <key = ?, ...>, last_enriched_at = datetime('now') WHERE id = ?
EnrichedRow(row, sf) ==
  [row EXCEPT
     !.domain = IF "domain" \in DOMAIN sf THEN sf["domain"] ELSE @,
     !.website = IF "website" \in DOMAIN sf THEN sf["website"] ELSE @,
     !.enr = [c \in EnrichCols |-> IF c \in DOMAIN sf THEN sf[c] ELSE row.enr[c]],
     !.last_enriched_at = NOW]

UpdateEnrichmentResult(tbl, company_id, fields) ==
  LET sf == SafeFields(tbl, company_id, fields)
      new == {IF r.id = company_id THEN EnrichedRow(r, sf) ELSE r : r \in tbl}
  IN  IF DomainUnique(new) THEN [tbl |-> new, err |-> NULL]
      ELSE [tbl |-> tbl, err |-> "IntegrityError"]

update_enrichment(company_id, fields) ==
  /\ hist.calls < MaxCalls
  /\ LET res == UpdateEnrichmentResult(companies, company_id, fields)
     IN  /\ companies' = res.tbl
         /\ lastCall' = [op |-> "update_enrichment", company_id |-> company_id,
                         fields |-> fields, before |-> companies, err |-> res.err]
  /\ hist' = [hist EXCEPT !.calls = @ + 1]
  /\ UNCHANGED <<people, outreach, seq, dd, en, ing, xt, queries>>

NameVals == {"Acme", "Beta"}
DomainVals == {"acme.com", "beta.io"}
WebsiteVals == {"https://acme.com"}

\* The update dictionaries the callers build: the two keys of the repository
\* test, the full dictionary of EnrichAndPersistCompanies.run, and one
\* without a domain key.
FieldInputs ==
  {[domain |-> d, legal_form |-> "GmbH"] : d \in DomainVals}
  \cup {[legal_form |-> NULL, industries_json |-> "[x]", domain |-> d,
         website |-> "https://acme.com", size_employees |-> "10"] : d \in DomainVals \cup {NULL}}
  \cup {[legal_form |-> "AG"]}

InitCompanies == InitPeople

NextCompanies ==
  \/ \E name \in NameVals \cup {NULL}, domain \in DomainVals \cup {NULL, EMPTY},
        website \in WebsiteVals \cup {NULL} :
       upsert_by_domain(name, domain, website)
  \/ \E cid \in 1..MaxCompanies, fields \in FieldInputs : update_enrichment(cid, fields)

SpecCompanies == InitCompanies /\ [][NextCompanies]_vars

\* ------------------------------------------------------------------------
\* Properties of CompaniesRepo (checked under SpecCompanies)
\* ------------------------------------------------------------------------
RowsWithDomain(tbl, d) == {r \in tbl : r.domain = d}

UpsertWithDomain == lastCall.op = "upsert_by_domain" /\ Truthy(lastCall.domain)
UpsertOnExisting == UpsertWithDomain /\ RowsWithDomain(lastCall.before, lastCall.domain) # {}
ExistingBefore == CHOOSE r \in RowsWithDomain(lastCall.before, lastCall.domain) : TRUE

\* C3: no two company rows ever hold the same non-null domain, and an upsert
\* with a domain succeeds and leaves exactly one row for that domain.
C3_DomainOwnedByOneRow ==
  /\ \A r1, r2 \in companies :
       (r1.id # r2.id /\ r1.domain # NULL) => r1.domain # r2.domain
  /\ UpsertWithDomain =>
       /\ lastCall.err = NULL
       /\ Cardinality(RowsWithDomain(companies, lastCall.domain)) = 1
       /\ \A r \in RowsWithDomain(companies, lastCall.domain) : r.id = lastCall.ret

\* a second upsert with a domain that a row already owned, next to another
\* company row
C3_Witness ==
  /\ UpsertOnExisting
  /\ Cardinality(companies) >= 2
  /\ Cardinality(RowsWithDomain(companies, lastCall.domain)) = 1

EnrichCollision ==
  /\ lastCall.op = "update_enrichment"
  /\ HasRow(lastCall.before, lastCall.company_id)
  /\ "domain" \in DOMAIN lastCall.fields
  /\ lastCall.fields["domain"] # NULL
  /\ \E r \in RowsWithDomain(lastCall.before, lastCall.fields["domain"]) :
       r.id # lastCall.company_id

\* C4: an enrichment update whose domain is owned by a different row raises
\* nothing, keeps the target's domain, writes every other supplied field,
\* stamps last_enriched_at and leaves the owning row (and every other row)
\* as it was.
C4_CollidingDomainDroppedOnly ==
  EnrichCollision =>
    LET old == RowOf(lastCall.before, lastCall.company_id)
        new == RowOf(companies, lastCall.company_id)
        f == lastCall.fields
    IN  /\ lastCall.err = NULL
        /\ new.domain = old.domain
        /\ new.name = old.name
        /\ new.website = IF "website" \in DOMAIN f THEN f["website"] ELSE old.website
        /\ \A c \in EnrichCols :
             new.enr[c] = IF c \in DOMAIN f THEN f[c] ELSE old.enr[c]
        /\ new.last_enriched_at = NOW
        /\ \A r \in lastCall.before : r.id # lastCall.company_id => r \in companies
        /\ Cardinality(companies) = Cardinality(lastCall.before)

\* Beta (beta.io) is asked to take the domain of Acme, together with a legal
\* form, and had not been enriched before
C4_Witness ==
  /\ EnrichCollision
  /\ RowOf(lastCall.before, lastCall.company_id).domain \notin {NULL, lastCall.fields["domain"]}
  /\ RowOf(lastCall.before, lastCall.company_id).last_enriched_at = NULL
  /\ "legal_form" \in DOMAIN lastCall.fields
  /\ RowOf(companies, lastCall.company_id).enr["legal_form"] = "GmbH"

\* C9 (as stated): an upsert on a domain that a row owns inserts nothing,
\* returns that row's id, keeps a stored non-null name and website and fills
\* only null ones, also when the call passes no name.
C9_StoredNameWebsiteKept ==
  UpsertOnExisting =>
    LET new == RowOf(companies, ExistingBefore.id)
    IN  /\ Cardinality(companies) = Cardinality(lastCall.before)
        /\ lastCall.ret = ExistingBefore.id
        /\ new.name = COALESCE(ExistingBefore.name, lastCall.name)
        /\ new.website = COALESCE(ExistingBefore.website, lastCall.website)

\* the part of C9 that concerns a call without a name
C9_NoNameKeepsStoredName ==
  (UpsertOnExisting /\ lastCall.name = NULL) =>
    RowOf(companies, ExistingBefore.id).name = ExistingBefore.name

\* ------------------------------------------------------------------------
\* Enrichment: LoadPendingCompanies, EnrichAndPersistCompanies, cmd_enrich
\* ------------------------------------------------------------------------
MaxWorkers == 4

\* ORDER BY name: position of a name in SQLite's order (NULL first, then
\* byte order of the text)
NameRank(name) ==
  CASE name = NULL -> 0
    [] name = "Acme" -> 1
    [] name = "Beta" -> 2
    [] name = "Gamma" -> 3
    [] name = "Unknown Company" -> 4
    [] name = "acme.com" -> 5
    [] name = "beta.io" -> 6
    [] OTHER -> 7

\* json_array_length(COALESCE(industries_json, '[]')) = 0
JsonArrayEmpty(j) == j \in {NULL, "[]"}

\* A plausible fault of the WHERE clause, used to test the properties.
PendingRows_IgnoreSize(tbl) ==
  {r \in tbl : \/ r.last_enriched_at = NULL
               \/ r.enr["industries_json"] = NULL
               \/ JsonArrayEmpty(r.enr["industries_json"])}

PendingRows(tbl) ==
  {r \in tbl : \/ r.last_enriched_at = NULL
               \/ r.enr["industries_json"] = NULL
               \/ JsonArrayEmpty(r.enr["industries_json"])
               \/ r.enr["size_employees"] = NULL}

Min(a, b) == IF a <= b THEN a ELSE b

\* the orders of the rows of S in which every row stands before the rows of
\* greater name and, among equal names, before the rows of greater id
ComesBefore(r, q) ==
  \/ NameRank(r.name) < NameRank(q.name)
  \/ NameRank(r.name) = NameRank(q.name) /\ r.id < q.id

RECURSIVE OrderedByName(_)
OrderedByName(S) ==
  IF S = {} THEN {<< >>}
  ELSE UNION {{<<r>> \o rest : rest \in OrderedByName(S \ {r})} :
                r \in {q \in S : \A p \in S \ {q} : ComesBefore(q, p)}}

\* The row sequences select_pending_enrichment returns. ORDER BY name does
\* not name a second key; SQLite walks idx_companies_name, whose entries are
\* (name, rowid), so rows with equal names come in the order of their ids.
select_pending_enrichment(tbl, limit) ==
  {SubSeq(s, 1, Min(limit, Len(s))) : s \in OrderedByName(PendingRows(tbl))}

\* LoadPendingCompanies.run: ctx.companies
PendingBatch(rows) == [i \in 1..Len(rows) |->
                         [id |-> rows[i].id, name |-> rows[i].name, domain |-> rows[i].domain]]

\* extract_apex_domain on the website strings of the model
extract_apex_domain(website) ==
  CASE website = "https://acme.com" -> "acme.com"
    [] website = "https://beta.io" -> "beta.io"
    [] website = "https://www.gamma.de/kontakt" -> "gamma.de"
    [] OTHER -> NULL

\* name.strip().lower() of the company names of the model, as its words
\* (the maximal runs without white space); a name that is not listed holds
\* none of the words the patterns look for
NameWords(name) ==
  CASE name = "Acme GmbH" -> <<"acme", "gmbh">>
    [] name = "Acme GmbH & Co. KG" -> <<"acme", "gmbh", "&", "co.", "kg">>
    [] name = "Beta AG" -> <<"beta", "ag">>
    [] name = "Beta AG & Co KG" -> <<"beta", "ag", "&", "co", "kg">>
    [] name = "Gamma SE" -> <<"gamma", "se">>
    [] name = "Gamma SE & Co. KG" -> <<"gamma", "se", "&", "co.", "kg">>
    [] name = "Delta KGaA" -> <<"delta", "kgaa">>
    [] name = "Delta UG" -> <<"delta", "ug">>
    [] name = "Delta OHG" -> <<"delta", "ohg">>
    [] name = "Delta KG" -> <<"delta", "kg">>
    [] name = "Hans Meier e.K." -> <<"hans", "meier", "e.k.">>
    [] name = "Acme AG GmbH" -> <<"acme", "ag", "gmbh">>
    [] OTHER -> << >>

\* re.search(r"\b<first>\s*&\s*co\.?\s*kg\b", low)
HasCompound(words, first) ==
  \E i \in 1..(Len(words) - 3) :
    /\ words[i] = first
    /\ words[i + 1] = "&"
    /\ words[i + 2] \in {"co.", "co"}
    /\ words[i + 3] = "kg"

\* re.search(r"\b<word>\b", low)
HasWord(words, word) == \E i \in 1..Len(words) : words[i] = word

\* re.search(r"\be\.k\.\?\b", low): the characters "e.k.?" followed by a
\* word character ("\?" is a literal question mark); the word "e.k." does
\* not match
HasEkPattern(words) ==
  \E i \in 1..Len(words) : words[i] \in {"e.k.?x", "e.k.?k."}

_extract_legal_form_from_name(name) ==
  LET words == NameWords(name)
  IN  IF ~Truthy(name) THEN NULL
      ELSE IF HasCompound(words, "gmbh") THEN "GmbH & Co. KG"
      ELSE IF HasCompound(words, "ag") THEN "AG & Co. KG"
      ELSE IF HasCompound(words, "se") THEN "SE & Co. KG"
      ELSE IF HasWord(words, "kgaa") THEN "KGaA"
      ELSE IF HasWord(words, "gmbh") THEN "GmbH"
      ELSE IF HasWord(words, "ag") THEN "AG"
      ELSE IF HasWord(words, "se") THEN "SE"
      ELSE IF HasWord(words, "ug") THEN "UG"
      ELSE IF HasWord(words, "ohg") THEN "OHG"
      ELSE IF HasWord(words, "kg") THEN "KG"
      ELSE IF HasEkPattern(words) THEN "e.K."
      ELSE NULL

\* str(raw).strip().strip("\"'") without its parenthesised notes, for the
\* supplied values of the model
CleanedForm(raw) ==
  CASE raw = " Ltd " -> "Ltd"
    [] raw = "Aktiengesellschaft (AG)" -> "Aktiengesellschaft"
    [] raw = "'AG'" -> "AG"
    [] raw = " " -> EMPTY
    [] OTHER -> raw

\* phrase_map: the first long phrase that text.lower() contains
PhraseForm(text) ==
  CASE text = "Gesellschaft mit beschraenkter Haftung" -> "GmbH"
    [] text = "Aktiengesellschaft" -> "AG"
    [] OTHER -> NULL

\* shorts: the lowered text, or its letters and dots alone, as a key
ShortForm(text) ==
  CASE text \in {"gmbh", "GmbH"} -> "GmbH"
    [] text = "AG" -> "AG"
    [] text = "ek" -> "e.K."
    [] text = "e.K." -> "e.K."
    [] OTHER -> NULL

_canonicalize_legal_form(raw) ==
  IF ~Truthy(raw) THEN NULL
  ELSE LET text == CleanedForm(raw)
       IN  IF PhraseForm(text) # NULL THEN PhraseForm(text)
           ELSE IF ShortForm(text) # NULL THEN ShortForm(text)
           ELSE IF text # EMPTY THEN text
           ELSE NULL

_derive_legal_form(name, provided) ==
  IF Truthy(_extract_legal_form_from_name(name))
  THEN _extract_legal_form_from_name(name)
  ELSE _canonicalize_legal_form(provided)

\* What a fetch hands back: a dict (possibly the empty dict), None, or a value
\* that is no dict.  d holds data.get(key) of the keys the model tracks.
NoKeys == [Legal_Form |-> NULL, Industries |-> NULL, Website |-> NULL, Size_Employees |-> NULL]
Dict(d) == [kind |-> "dict", empty |-> FALSE, d |-> d]
EmptyDict == [kind |-> "dict", empty |-> TRUE, d |-> NoKeys]
None == [kind |-> "None", empty |-> TRUE, d |-> NoKeys]
NotADict == [kind |-> "list", empty |-> FALSE, d |-> NoKeys]
Raises == [kind |-> "raise", empty |-> TRUE, d |-> NoKeys]

Payloads ==
  {Dict([Legal_Form |-> "Gesellschaft mit beschraenkter Haftung", Industries |-> "[x]",
         Website |-> "https://beta.io", Size_Employees |-> "10"]),
   Dict([Legal_Form |-> NULL, Industries |-> "[]", Website |-> "https://www.gamma.de/kontakt",
         Size_Employees |-> NULL])}

\* f"https://{domain}"
HttpsUrl(domain) ==
  CASE domain = "acme.com" -> "https://acme.com"
    [] domain = "beta.io" -> "https://beta.io"
    [] OTHER -> "https://other"

_stub_fetcher(name, domain) ==
  Dict([Legal_Form |-> NULL, Industries |-> "[]",
        Website |-> IF Truthy(domain) THEN HttpsUrl(domain) ELSE NULL,
        Size_Employees |-> NULL])

\* What the callable can do for one company, by fetcher
Outcomes(fetcher) ==
  CASE fetcher = "fetch_func" -> Payloads \cup {None, NotADict, Raises}
    [] fetcher = "_gateway_fetch" -> Payloads \cup {None, EmptyDict}
    [] OTHER -> {None}

\* A plausible fault of the gateway, used to test the properties.
_gateway_fetch_PassThrough(out, name, domain) == out

\* cmd_enrich._gateway_fetch: data if data else _stub_fetcher(name, domain)
_gateway_fetch(out, name, domain) ==
  IF out.kind = "dict" /\ ~out.empty THEN out ELSE _stub_fetcher(name, domain)

\* _fetch: the fourth component of the tuple a worker returns
_fetch(fetcher, out, name, domain) ==
  CASE fetcher = "_gateway_fetch" -> _gateway_fetch(out, name, domain)
    [] fetcher = "_stub_fetcher" -> _stub_fetcher(name, domain)
    [] OTHER -> IF out.kind = "raise" THEN None ELSE out

\* A plausible fault of the fail-fast guard, used to test the properties.
Missing_Nothing(results) == {}

\* missing = [(cid, nm) for ... in results if not isinstance(data, dict)]
Missing(results) == {i \in 1..Len(results) : results[i].data.kind # "dict"}

\* A plausible fault, used to test the properties: the domain is always
\* taken from the payload's website.
EnrichmentFields_WebsiteFirst(res) ==
  LET data == res.data.d
      website_val == data.Website
  IN  [legal_form |-> _derive_legal_form(res.name, data.Legal_Form),
       industries_json |-> data.Industries,
       domain |-> IF Truthy(website_val) THEN extract_apex_domain(website_val) ELSE NULL,
       website |-> website_val,
       size_employees |-> data.Size_Employees]

\* fields of one result
EnrichmentFields(res) ==
  LET data == res.data.d
      website_val == data.Website
  IN  [legal_form |-> _derive_legal_form(res.name, data.Legal_Form),
       industries_json |-> data.Industries,
       domain |-> Or(res.domain, IF Truthy(website_val) THEN extract_apex_domain(website_val)
                                 ELSE NULL),
       website |-> website_val,
       size_employees |-> data.Size_Employees]

Running == IF en.pc = "fetching" THEN {i \in 1..Len(en.batch) : en.st[i] = "running"} ELSE {}
Queued == IF en.pc = "fetching" THEN {i \in 1..Len(en.batch) : en.st[i] = "queued"} ELSE {}

\* Pipeline.run up to the submission of the fetch tasks
EnrichBegin(fetcher, limit) ==
  /\ en.pc \in {"idle", "done", "failed"}
  /\ hist.calls < MaxRuns
  /\ \E rows \in select_pending_enrichment(companies, limit) :
       en' = [pc |-> "fetching", fetcher |-> fetcher, batch |-> PendingBatch(rows),
              st |-> [i \in 1..Len(rows) |-> "queued"],
              out |-> [i \in 1..Len(rows) |-> None],
              results |-> << >>, next |-> 1, updated |-> 0, err |-> NULL,
              snapshot |-> companies, limit |-> limit]
  /\ hist' = [hist EXCEPT !.calls = @ + 1]
  /\ lastCall' = [op |-> "LoadPendingCompanies", limit |-> limit]
  /\ UNCHANGED <<people, companies, outreach, seq, dd, ing, xt, queries>>

\* a pool thread takes the oldest queued task
WorkerStart(i) ==
  /\ i \in Queued
  /\ \A j \in Queued : i <= j
  /\ Cardinality(Running) < MaxWorkers
  /\ en' = [en EXCEPT !.st[i] = "running"]
  /\ UNCHANGED <<people, companies, outreach, seq, lastCall, hist, dd, ing, xt, queries>>

\* the task returns; as_completed hands its tuple to the calling thread
WorkerFinish(i, out) ==
  /\ i \in Running
  /\ out \in Outcomes(en.fetcher)
  /\ en' = [en EXCEPT
              !.st[i] = "done",
              !.out[i] = out,
              !.results = Append(@, [id |-> en.batch[i].id, name |-> en.batch[i].name,
                                     domain |-> en.batch[i].domain,
                                     data |-> _fetch(en.fetcher, out, en.batch[i].name,
                                                     en.batch[i].domain)])]
  /\ UNCHANGED <<people, companies, outreach, seq, lastCall, hist, dd, ing, xt, queries>>

\* A plausible fault, used to test the properties: the results are read
\* without waiting for the pool.
EnrichCheck_NoWait ==
  /\ en.pc = "fetching"
  /\ en' = IF Missing(en.results) # {}
           THEN [en EXCEPT !.pc = "failed", !.err = "RuntimeError"]
           ELSE [en EXCEPT !.pc = "persisting"]
  /\ UNCHANGED <<people, companies, outreach, seq, lastCall, hist, dd, ing, xt, queries>>

\* the pool is shut down (all tasks done); fail fast on missing data
EnrichCheck ==
  /\ en.pc = "fetching"
  /\ \A i \in 1..Len(en.batch) : en.st[i] = "done"
  /\ en' = IF Missing(en.results) # {}
           THEN [en EXCEPT !.pc = "failed", !.err = "RuntimeError"]
           ELSE [en EXCEPT !.pc = "persisting"]
  /\ UNCHANGED <<people, companies, outreach, seq, lastCall, hist, dd, ing, xt, queries>>

\* one turn of the persistence loop, run by the calling thread
EnrichPersist ==
  /\ en.pc = "persisting"
  /\ en.next <= Len(en.results)
  /\ LET res == en.results[en.next]
     IN  IF res.data.kind # "dict"
         THEN /\ en' = [en EXCEPT !.pc = "failed", !.err = "AttributeError"]
              /\ UNCHANGED <<companies, lastCall>>
         ELSE LET fields == EnrichmentFields(res)
                  upd == UpdateEnrichmentResult(companies, res.id, fields)
              IN  /\ companies' = upd.tbl
                  /\ lastCall' = [op |-> "update_enrichment", company_id |-> res.id,
                                  fields |-> fields, before |-> companies, err |-> upd.err]
                  /\ en' = IF upd.err # NULL
                           THEN [en EXCEPT !.pc = "failed", !.err = upd.err]
                           ELSE [en EXCEPT !.next = @ + 1, !.updated = @ + 1]
  /\ UNCHANGED <<people, outreach, seq, hist, dd, ing, xt, queries>>

\* ctx.meta["companies_enriched"] = updated
EnrichReturn ==
  /\ en.pc = "persisting"
  /\ en.next > Len(en.results)
  /\ en' = [en EXCEPT !.pc = "done"]
  /\ UNCHANGED <<people, companies, outreach, seq, lastCall, hist, dd, ing, xt, queries>>

\* Company rows the runs start from
SeedName(i) == CASE i = 1 -> "Beta" [] i = 2 -> "Acme" [] i = 3 -> "Beta" [] OTHER -> "Gamma"
SeedDomain(i) == CASE i = 1 -> "beta.io" [] i = 2 -> "acme.com" [] OTHER -> NULL

SeedCompany(i, enriched) ==
  [id |-> i, name |-> SeedName(i), domain |-> SeedDomain(i), website |-> NULL,
   enr |-> [c \in EnrichCols |->
              IF ~enriched THEN NULL
              ELSE CASE c = "industries_json" -> (IF i = 2 THEN "[]" ELSE "[x]")
                     [] c = "size_employees" -> (IF i = 3 THEN NULL ELSE "10")
                     [] OTHER -> "AG"],
   last_enriched_at |-> IF enriched THEN "d1" ELSE NULL]

InitEnrich ==
  /\ people = {}
  /\ outreach = {}
  /\ \E n \in 1..MaxCompanies : \E done \in SUBSET (1..n) :
       /\ companies = {SeedCompany(i, i \in done) : i \in 1..n}
       /\ seq = [people |-> 0, companies |-> n]
  /\ lastCall = NoCall
  /\ hist = InitHist
  /\ dd = NoRun
  /\ en = NoRun
  /\ ing = NoRun
  /\ xt = NoRun
  /\ queries = {}

NextEnrich ==
  \/ \E fetcher \in {"fetch_func", "_gateway_fetch", "_stub_fetcher"}, limit \in 1..MaxBatch :
       EnrichBegin(fetcher, limit)
  \/ \E i \in 1..MaxBatch : WorkerStart(i)
  \/ \E i \in 1..MaxBatch : \E out \in Payloads \cup {None, NotADict, Raises, EmptyDict} :
       WorkerFinish(i, out)
  \/ EnrichCheck
  \/ EnrichPersist
  \/ EnrichReturn

SpecEnrich == InitEnrich /\ [][NextEnrich]_vars

\* ------------------------------------------------------------------------
\* Properties of the enrichment batch (checked under SpecEnrich)
\* ------------------------------------------------------------------------
EnrichActive == en.pc # "idle"

\* C5: as soon as one fetch of the batch raised or returned something that
\* is not a dict, no company row is updated: the run ends in RuntimeError
\* and the table is as it was when the batch was loaded.
C5_FailFastNoWrite ==
  (EnrichActive /\ \E i \in 1..Len(en.results) : en.results[i].data.kind # "dict") =>
    /\ companies = en.snapshot
    /\ en.updated = 0
    /\ en.pc \in {"fetching", "failed"}
    /\ en.pc = "failed" => en.err = "RuntimeError"

\* a batch of two ended in RuntimeError although one of the two fetches
\* delivered a dict
C5_Witness ==
  /\ EnrichActive
  /\ en.pc = "failed" /\ en.err = "RuntimeError"
  /\ Len(en.results) >= 2
  /\ \E i \in 1..Len(en.results) : en.results[i].data.kind = "dict"
  /\ \E i \in 1..Len(en.results) : en.results[i].data.kind # "dict"
  /\ companies = en.snapshot

\* C6 (as stated): under cmd_enrich with provider openai or linkup, once the
\* research capability returned no data for a pending company the command
\* persists nothing and ends in RuntimeError.
C6_NoDataFailsCommand ==
  (/\ EnrichActive
   /\ en.fetcher = "_gateway_fetch"
   /\ \E i \in 1..Len(en.batch) : en.st[i] = "done" /\ en.out[i] = None) =>
    /\ companies = en.snapshot
    /\ en.pc # "done"
    /\ en.pc = "failed" => en.err = "RuntimeError"

\* ------------------------------------------------------------------------
\* cmd_dedupe_people
\* ------------------------------------------------------------------------
\* norm = _norm(url); if not norm: norm = url
NormKey(url) ==
  LET norm_url == normalize_linkedin_profile_url(url)
  IN  IF norm_url = NoUrl THEN url ELSE norm_url

\* norm_to_ids: the ids stored under one key, and the keys with more than one
GroupIds(tbl, key) == {r.id : r \in {q \in tbl : NormKey(q.linkedin_profile) = key}}
DuplicateKeys(tbl) ==
  {k \in {NormKey(r.linkedin_profile) : r \in tbl} : Cardinality(GroupIds(tbl, k)) > 1}

MinOf(S) == CHOOSE m \in S : \A x \in S : m <= x

RECURSIVE Ascending(_)
Ascending(S) == IF S = {} THEN << >> ELSE <<MinOf(S)>> \o Ascending(S \ {MinOf(S)})

\* A plausible fault of the merge, used to test the properties.
MergedValue_KeepPrimaryOnly(primary, dup, null) == primary

\* "col = COALESCE(col, ?)" is issued only for a duplicate's value that is
\* neither None nor ''
MergedValue(primary, dup, null) ==
  IF dup # null /\ dup # EMPTY THEN (IF primary # null THEN primary ELSE dup)
  ELSE primary

MergedRow(primary, dup) ==
  [primary EXCEPT
     !.col = [c \in PersonCols |-> MergedValue(primary.col[c], dup.col[c], NULL)],
     !.lookup_date = MergedValue(primary.lookup_date, dup.lookup_date, NULL),
     !.company_id = IF dup.company_id # NoId /\ primary.company_id = NoId
                    THEN dup.company_id ELSE primary.company_id]

\* UPDATE outreach_messages SET linkedin_profile = ? WHERE linkedin_profile = ?
Repointed(msgs, to, from) ==
  {IF m.linkedin_profile = from THEN [m EXCEPT !.linkedin_profile = to] ELSE m : m \in msgs}

ProfileUnique(tbl) ==
  \A r1, r2 \in tbl : r1.id # r2.id => r1.linkedin_profile # r2.linkedin_profile

DedupeIdle ==
  UNCHANGED <<companies, seq, hist, en, ing, xt, queries>>

\* SELECT id, linkedin_profile FROM people; build norm_to_ids
DedupeBegin ==
  /\ dd.pc = "idle"
  /\ dd' = [pc |-> "groups", keys |-> DuplicateKeys(people), key |-> NoUrl,
            primary |-> NoId, dups |-> << >>, merged |-> 0, err |-> NULL,
            people |-> people, outreach |-> outreach,
            before |-> [people |-> people, outreach |-> outreach]]
  /\ lastCall' = [op |-> "cmd_dedupe_people"]
  /\ UNCHANGED <<people, outreach>>
  /\ DedupeIdle

\* next key of norm_to_ids with more than one entry; entries sorted by id
DedupeGroup(key) ==
  /\ dd.pc = "groups"
  /\ key \in dd.keys
  /\ LET ids == Ascending(GroupIds(dd.before.people, key))
     IN  dd' = [dd EXCEPT !.keys = @ \ {key}, !.key = key, !.primary = Head(ids),
                          !.dups = Tail(ids), !.pc = "merge"]
  /\ UNCHANGED <<people, outreach, lastCall>>
  /\ DedupeIdle

\* copy the duplicate's non-null fields into the primary
DedupeMerge ==
  /\ dd.pc = "merge"
  /\ dd.dups # << >>
  /\ LET dup == RowOf(dd.people, Head(dd.dups))
         primary == RowOf(dd.people, dd.primary)
     IN  dd' = [dd EXCEPT !.people = ReplaceRow(@, MergedRow(primary, dup)),
                          !.pc = "repoint"]
  /\ UNCHANGED <<people, outreach, lastCall>>
  /\ DedupeIdle

\* repoint the messages of the duplicate to the normalized URL
DedupeRepoint ==
  /\ dd.pc = "repoint"
  /\ LET dup == RowOf(dd.people, Head(dd.dups))
     IN  dd' = [dd EXCEPT !.outreach = Repointed(@, dd.key, dup.linkedin_profile),
                          !.pc = "delete"]
  /\ UNCHANGED <<people, outreach, lastCall>>
  /\ DedupeIdle

\* A plausible fault, used to test the properties: the connection commits
\* each statement on its own.
DedupeDelete_Autocommit ==
  /\ dd.pc = "delete"
  /\ dd' = [dd EXCEPT !.people = {r \in @ : r.id # Head(dd.dups)},
                      !.dups = Tail(@), !.merged = @ + 1, !.pc = "merge"]
  /\ people' = {r \in dd.people : r.id # Head(dd.dups)}
  /\ UNCHANGED <<outreach, lastCall>>
  /\ DedupeIdle

\* DELETE FROM people WHERE id = ?; merged += 1
DedupeDelete ==
  /\ dd.pc = "delete"
  /\ dd' = [dd EXCEPT !.people = {r \in @ : r.id # Head(dd.dups)},
                      !.dups = Tail(@), !.merged = @ + 1, !.pc = "merge"]
  /\ UNCHANGED <<people, outreach, lastCall>>
  /\ DedupeIdle

\* set the primary's linkedin_profile to the normalized URL if different;
\* UNIQUE(linkedin_profile) makes the statement raise when another row
\* already carries that string, and the transaction is never committed
DedupeRename ==
  /\ dd.pc = "merge"
  /\ dd.dups = << >>
  /\ LET primary == RowOf(dd.people, dd.primary)
         renamed == ReplaceRow(dd.people, [primary EXCEPT !.linkedin_profile = dd.key])
     IN  dd' = IF primary.linkedin_profile = dd.key THEN [dd EXCEPT !.pc = "groups"]
               ELSE IF ProfileUnique(renamed)
                    THEN [dd EXCEPT !.people = renamed, !.pc = "groups"]
                    ELSE [dd EXCEPT !.pc = "failed", !.err = "IntegrityError"]
  /\ UNCHANGED <<people, outreach, lastCall>>
  /\ DedupeIdle

\* the process is stopped between two statements (a signal, a crash): the
\* connection goes away with its open transaction, nothing is committed
DedupeInterrupt ==
  /\ dd.pc \in {"groups", "merge", "repoint", "delete"}
  /\ dd' = [dd EXCEPT !.pc = "failed", !.err = "Interrupted"]
  /\ UNCHANGED <<people, outreach, lastCall>>
  /\ DedupeIdle

\* conn.commit(); print merged
DedupeCommit ==
  /\ dd.pc = "groups"
  /\ dd.keys = {}
  /\ people' = dd.people
  /\ outreach' = dd.outreach
  /\ dd' = [dd EXCEPT !.pc = "done"]
  /\ lastCall' = [op |-> "cmd_dedupe_people", merged |-> dd.merged]
  /\ DedupeIdle

\* Stored rows the command starts from: people rows with pairwise different
\* linkedin_profile strings, some of them variants of one profile, and
\* scheduled messages that reference stored profiles.
DedupeUrls == {U_a, U_wwwA, U_dePct, U_pct2, U_pct2s, U_pct1, U_other}

Fill(i, filled) ==
  IF ~filled THEN [col |-> [c \in PersonCols |-> NULL], company_id |-> NoId]
  ELSE IF i % 2 = 1
       THEN [col |-> [c \in PersonCols |-> IF c = "email" THEN EMPTY ELSE "x"], company_id |-> 1]
       ELSE [col |-> [c \in PersonCols |-> "y"], company_id |-> 2]

StoredPerson(i, url, filled) ==
  [id |-> i, linkedin_profile |-> url, col |-> Fill(i, filled).col,
   lookup_date |-> IF filled THEN "d1" ELSE NOW, company_id |-> Fill(i, filled).company_id]

\* ids follow the order of insertion: the stored profiles were inserted in
\* the order of UrlRank or in the reverse order
UrlRank(u) ==
  CASE u = U_wwwA -> 1 [] u = U_a -> 2 [] u = U_dePct -> 3 [] u = U_pct2 -> 4
    [] u = U_pct2s -> 5 [] u = U_pct1 -> 6 [] OTHER -> 7

InsertionId(S, u, reversed) ==
  IF reversed THEN Cardinality({v \in S : UrlRank(v) >= UrlRank(u)})
  ELSE Cardinality({v \in S : UrlRank(v) <= UrlRank(u)})

InitDedupe ==
  /\ \E S \in SUBSET DedupeUrls : \E reversed \in BOOLEAN :
       \E filled \in SUBSET (1..MaxPeople) : \E targets \in SUBSET S :
         /\ S # {}
         /\ Cardinality(S) <= MaxPeople
         /\ Cardinality(targets) <= MaxMessages
         /\ people = {StoredPerson(InsertionId(S, u, reversed), u,
                                   InsertionId(S, u, reversed) \in filled) : u \in S}
         /\ seq = [people |-> Cardinality(S), companies |-> 0]
         /\ outreach = {[id |-> InsertionId(targets, u, FALSE), linkedin_profile |-> u] :
                          u \in targets}
  /\ companies = {}
  /\ lastCall = NoCall
  /\ hist = InitHist
  /\ dd = NoRun
  /\ en = NoRun
  /\ ing = NoRun
  /\ xt = NoRun
  /\ queries = {}

NextDedupe ==
  \/ DedupeBegin
  \/ dd.pc = "groups" /\ \E key \in dd.keys : DedupeGroup(key)
  \/ DedupeMerge
  \/ DedupeRepoint
  \/ DedupeDelete
  \/ DedupeRename
  \/ DedupeInterrupt
  \/ DedupeCommit

SpecDedupe == InitDedupe /\ [][NextDedupe]_vars

\* ------------------------------------------------------------------------
\* Properties of cmd_dedupe_people
\* ------------------------------------------------------------------------
DedupeEnded == dd.pc \in {"done", "failed"}

\* the groups of the rows the command started from
BeforeKeys == {NormKey(r.linkedin_profile) : r \in dd.before.people}
BeforeGroup(key) == {r \in dd.before.people : NormKey(r.linkedin_profile) = key}
Survivors(key) == {r \in people : r.id \in GroupIds(dd.before.people, key)}

HeldCol(G, c) == \E m \in G : m.col[c] # NULL /\ m.col[c] # EMPTY
HeldLookupDate(G) == \E m \in G : m.lookup_date # NULL /\ m.lookup_date # EMPTY
HeldCompany(G) == \E m \in G : m.company_id # NoId

GroupMerged(key) ==
  /\ Cardinality(Survivors(key)) = 1
  /\ \A r \in Survivors(key) :
       /\ r.id = MinOf(GroupIds(dd.before.people, key))
       /\ \A c \in PersonCols : HeldCol(BeforeGroup(key), c) => r.col[c] # NULL
       /\ HeldLookupDate(BeforeGroup(key)) => r.lookup_date # NULL
       /\ HeldCompany(BeforeGroup(key)) => r.company_id # NoId

\* C7: after cmd_dedupe_people every group of rows whose stored identities
\* normalize to the same value has exactly one row left, the one with the
\* smallest original id, holding a non-null value in every mergeable column
\* for which some member held a non-null, non-empty value; and the merged
\* count that is printed equals the number of rows deleted.
C7_GroupsMergedIntoSmallestId ==
  DedupeEnded =>
    /\ \A key \in BeforeKeys : GroupMerged(key)
    /\ dd.pc = "done" =>
         lastCall.merged = Cardinality(dd.before.people) - Cardinality(people)

\* The same statement for the runs that reach conn.commit().
DedupeCompletedRunMerges ==
  dd.pc = "done" =>
    /\ \A key \in BeforeKeys : GroupMerged(key)
    /\ lastCall.merged = Cardinality(dd.before.people) - Cardinality(people)

ReferencedMember(m, key) ==
  /\ Cardinality(BeforeGroup(key)) > 1
  /\ \E r \in BeforeGroup(key) : r.linkedin_profile = m.linkedin_profile

\* C8: after cmd_dedupe_people every message that referenced the identity
\* string of a member of a merged group (a deleted duplicate, or the primary
\* under its old identity) references the normalized identity, which is the
\* linkedin_profile of the surviving row; no such message is left pointing
\* at an identity that no people row carries.
C8_MessagesFollowTheSurvivor ==
  dd.pc = "done" =>
    \A m0 \in dd.before.outreach : \A key \in BeforeKeys :
      ReferencedMember(m0, key) =>
        \E m \in outreach :
          /\ m.id = m0.id
          /\ m.linkedin_profile = key
          /\ \E r \in Survivors(key) : r.linkedin_profile = m.linkedin_profile

\* ------------------------------------------------------------------------
\* Ingestion: ValidateCompanies + PersistCompanies, ingest_profiles,
\* ValidatePeople + PersistPeople
\* ------------------------------------------------------------------------
\* str.strip() and str.lower() on the text values of the records
StripText(v) ==
  CASE v = " Acme" -> "Acme"
    [] v = " Berlin" -> "Berlin"
    [] OTHER -> v

LowerText(v) ==
  CASE v = "Acme" -> "acme"
    [] v = "ACME.com" -> "acme.com"
    [] v = "Berlin" -> "berlin"
    [] v = NULL -> EMPTY
    [] OTHER -> v

validate_company_required(c) ==
  IF ~(Truthy(c.Company) \/ Truthy(c.Company_Domain) \/ Truthy(c.Company_Website))
  THEN {"Company missing name/domain/website"} ELSE {}

RECURSIVE validate_all_companies(_)
validate_all_companies(cs) ==
  IF cs = << >> THEN << >>
  ELSE (IF validate_company_required(Head(cs)) # {} THEN << >> ELSE <<Head(cs)>>)
         \o validate_all_companies(Tail(cs))

\* c.get('address')
AddressOf(c) == IF "address" \in DOMAIN c THEN c.address ELSE NULL

\* key = (domain or '').lower(); without it
\* name.strip().lower() + '|' + address.strip().lower().  A joined key holds
\* a "|" and a domain holds none, so the two kinds of key never meet: they
\* are kept apart by a tag.
CompanyKey_NameOnly(c) ==
  <<"name|address", LowerText(StripText(c.Company)), LowerText(StripText(AddressOf(c)))>>

CompanyKey(c) ==
  IF Truthy(c.Company_Domain) THEN <<"domain", LowerText(c.Company_Domain)>>
  ELSE <<"name|address", LowerText(StripText(c.Company)), LowerText(StripText(AddressOf(c)))>>

RECURSIVE UniqueCompanies(_, _)
UniqueCompanies(cs, seen) ==
  IF cs = << >> THEN << >>
  ELSE IF CompanyKey(Head(cs)) \in seen THEN UniqueCompanies(Tail(cs), seen)
       ELSE <<Head(cs)>> \o UniqueCompanies(Tail(cs), seen \cup {CompanyKey(Head(cs))})

remove_company_duplicates(cs) == UniqueCompanies(cs, {})

\* trims; Company_Domain derived from the website when missing
clean_company_data(c) ==
  LET name == StripText(c.Company)
      website == StripText(c.Company_Website)
      domain == StripText(c.Company_Domain)
      apex == IF Truthy(website) THEN extract_apex_domain(website) ELSE NULL
  IN  [Company |-> name, Company_Website |-> website,
       Company_Domain |-> IF ~Truthy(domain) /\ Truthy(apex) THEN apex ELSE domain]

ValidateCompanies(cs) ==
  LET unique == remove_company_duplicates(validate_all_companies(cs))
  IN  [i \in 1..Len(unique) |-> clean_company_data(unique[i])]

\* one record of PersistCompanies.run: skipped when it names nothing, and an
\* exception of the upsert is swallowed
PersistCompanyStep(st, c) ==
  IF ~(Truthy(c.Company) \/ Truthy(c.Company_Domain) \/ Truthy(c.Company_Website)) THEN st
  ELSE LET res == UpsertByDomainResult(st.companies, st.seqC, c.Company,
                                       c.Company_Domain, c.Company_Website)
       IN  IF res.err # NULL THEN st
           ELSE [st EXCEPT !.companies = res.tbl, !.seqC = res.lastId, !.processed = @ + 1]

RECURSIVE PersistCompanies(_, _)
PersistCompanies(st, cs) ==
  IF cs = << >> THEN st ELSE PersistCompanies(PersistCompanyStep(st, Head(cs)), Tail(cs))

\* keyword names of upsert_person, and those PersistPeople.run passes to upsert(**kwargs)
UpsertPersonParams ==
  {"linkedin_profile", "first_name", "last_name", "title_current", "email",
   "location_text", "connections_linkedin", "followers_linkedin", "website_info",
   "phone_info", "info_raw", "insights_text", "lookup_date", "source_name", "source_query"}
IngestProfilesKwargs == UpsertPersonParams
PersistPeopleKwargs == UpsertPersonParams \cup {"search_query_id"}

\* A plausible fault of the domain resolution, used to test the properties.
ResolvedDomain_NoApex(p) == p.Company_Domain

\* domain = p.get('Company_Domain') or extract_apex_domain(website)
ResolvedDomain(p) == Or(p.Company_Domain, extract_apex_domain(p.Company_Website))

\* split_name of a one-word name gives (name, None); the records carry no Email
PersonArgsOf(p) == [c \in PersonCols |-> IF c = "first_name" THEN p.Contact_Name ELSE NULL]

\* one record of the people loop. upsert_person leaves its statement
\* uncommitted; upsert_by_domain and link_person_to_company commit.
PersistPersonStep(st, p, kwargs) ==
  LET url == normalize_linkedin_profile_url(p.LinkedIn_Profile)
      upserted == UpsertedPeople(st.people, st.seqP + 1, url, PersonArgsOf(p), NULL)
      res == UpsertByDomainResult(st.companies, st.seqC, p.Company,
                                  ResolvedDomain(p), p.Company_Website)
      linked == IF res.ret # NoId THEN LinkedPeople(upserted, url, res.ret) ELSE upserted
  IN  IF st.err # NULL \/ url = NoUrl THEN st
      ELSE IF ~(kwargs \subseteq UpsertPersonParams) THEN [st EXCEPT !.err = "TypeError"]
      ELSE IF Truthy(ResolvedDomain(p)) \/ Truthy(p.Company)
           THEN IF res.err # NULL THEN [st EXCEPT !.err = res.err]
                ELSE [st EXCEPT !.people = linked, !.seqP = @ + 1,
                                !.companies = res.tbl, !.seqC = res.lastId,
                                !.committed = [people |-> linked, seqP |-> st.seqP + 1],
                                !.processed = @ + 1]
           ELSE [st EXCEPT !.people = upserted, !.seqP = @ + 1, !.processed = @ + 1]

RECURSIVE PersistPeople(_, _, _)
PersistPeople(st, ps, kwargs) ==
  IF ps = << >> THEN st
  ELSE PersistPeople(PersistPersonStep(st, Head(ps), kwargs), Tail(ps), kwargs)

\* mapped records (LinkedIn_Profile, Contact_Name, ...) pass ValidatePeople
\* with clean_profile_data only, which touches none of their keys
ValidatePeople(ps) == ps

\* The store as the run's connection finds it.
IngestStart ==
  [people |-> people, companies |-> companies, seqP |-> seq.people, seqC |-> seq.companies,
   committed |-> IF ing.pc = "idle" THEN [people |-> people, seqP |-> seq.people]
                 ELSE ing.committed,
   processed |-> 0, err |-> NULL]

\* a first run on any batch, or a second run of the same pipeline on the same batch
IngestTurn(kind, batch, exits) ==
  \/ ing.pc = "idle"
  \/ ing.pc = "once" /\ ing.kind = kind /\ ing.batch = batch /\ ing.exits = exits

\* The run's effect on the store. When the process exits after the run the
\* connection is dropped without a commit and the statements after the last
\* commit are rolled back; a caller that keeps the connection still sees them.
IngestFinish(kind, batch, exits, res) ==
  /\ people' = IF exits THEN res.committed.people ELSE res.people
  /\ companies' = res.companies
  /\ seq' = [people |-> IF exits THEN res.committed.seqP ELSE res.seqP,
             companies |-> res.seqC]
  /\ ing' = [pc |-> IF ing.pc = "idle" THEN "once" ELSE "twice",
             kind |-> kind, batch |-> batch, exits |-> exits,
             once |-> IF ing.pc = "idle" THEN [people |-> people', companies |-> companies']
                      ELSE ing.once,
             committed |-> res.committed, processed |-> res.processed, err |-> res.err]
  /\ lastCall' = [op |-> kind, processed |-> res.processed, err |-> res.err]
  /\ UNCHANGED <<outreach, hist, dd, en, xt, queries>>

\* Pipeline([ValidateCompanies(), PersistCompanies(conn)]).run(ctx)
PersistCompanies_run(batch) ==
  /\ IngestTurn("PersistCompanies", batch, FALSE)
  /\ IngestFinish("PersistCompanies", batch, FALSE,
                  PersistCompanies(IngestStart, ValidateCompanies(batch)))

\* ingest_profiles(conn, profiles)
ingest_profiles(batch, exits) ==
  /\ IngestTurn("ingest_profiles", batch, exits)
  /\ IngestFinish("ingest_profiles", batch, exits,
                  PersistPeople(IngestStart, batch, IngestProfilesKwargs))

\* Pipeline([ValidatePeople(), PersistPeople(conn)]).run(ctx)
PersistPeople_run(batch, exits) ==
  /\ IngestTurn("PersistPeople", batch, exits)
  /\ IngestFinish("PersistPeople", batch, exits,
                  PersistPeople(IngestStart, ValidatePeople(batch), PersistPeopleKwargs))

ProfileRecords ==
  [LinkedIn_Profile : {U_wwwA, U_b, U_other}, Contact_Name : {"x"},
   Company : {NULL, "Acme"}, Company_Domain : {NULL, "acme.com"},
   Company_Website : {NULL, "https://acme.com"}]

CompanyRecords ==
  [Company : {NULL, "Acme", " Acme"}, Company_Domain : {NULL, "acme.com"},
   Company_Website : {NULL, "https://acme.com"}]

Batches(R) == UNION {[1..n -> R] : n \in 0..MaxBatch}

InitIngest ==
  /\ people = {}
  /\ outreach = {}
  /\ \E stored \in {0, 1} :
       /\ companies = {NewCompany(i, "Acme", "acme.com", NULL) : i \in 1..stored}
       /\ seq = [people |-> 0, companies |-> stored]
  /\ lastCall = NoCall
  /\ hist = InitHist
  /\ dd = NoRun
  /\ en = NoRun
  /\ ing = NoRun
  /\ xt = NoRun
  /\ queries = {}

\* the batches and the way of ending a run may take: any on a first run, the
\* same again on the second
TurnBatches(kind, R) ==
  IF ing.pc = "idle" THEN Batches(R)
  ELSE IF ing.pc = "once" /\ ing.kind = kind THEN {ing.batch} ELSE {}

TurnExits == IF ing.pc = "once" THEN {ing.exits} ELSE BOOLEAN

NextIngest ==
  \/ \E batch \in TurnBatches("PersistCompanies", CompanyRecords) :
       PersistCompanies_run(batch)
  \/ \E batch \in TurnBatches("ingest_profiles", ProfileRecords), exits \in TurnExits :
       ingest_profiles(batch, exits)
  \/ \E batch \in TurnBatches("PersistPeople", ProfileRecords), exits \in TurnExits :
       PersistPeople_run(batch, exits)

SpecIngest == InitIngest /\ [][NextIngest]_vars

\* ------------------------------------------------------------------------
\* Properties of re-ingestion
\* ------------------------------------------------------------------------
RanTwice == ing.pc = "twice"

LinksOf(tbl) == {<<r.linkedin_profile, r.company_id>> : r \in tbl}

SamePeopleCount == Cardinality(people) = Cardinality(ing.once.people)
SameCompanyCount == Cardinality(companies) = Cardinality(ing.once.companies)
SameLinks == LinksOf(people) = LinksOf(ing.once.people)

HasDomain(r) ==
  Truthy(r.Company_Domain) \/ Truthy(extract_apex_domain(StripText(r.Company_Website)))

\* every record of the batch that names a company carries a domain, or a
\* website from which the apex domain is derived
EveryCompanyKeyed ==
  \A i \in 1..Len(ing.batch) :
    IF ing.kind = "PersistCompanies"
    THEN validate_company_required(ing.batch[i]) = {} => HasDomain(ing.batch[i])
    ELSE Truthy(ing.batch[i].Company) => HasDomain(ing.batch[i])

Normalizes(p) == normalize_linkedin_profile_url(p.LinkedIn_Profile) # NoUrl

NormalizingRecords(batch) == {i \in 1..Len(batch) : Normalizes(batch[i])}

RowsKeyedBy(tbl, p) ==
  {r \in tbl : r.linkedin_profile = normalize_linkedin_profile_url(p.LinkedIn_Profile)}

\* C11: after PersistPeople.run every record whose URL normalizes has exactly
\* one people row keyed by the normalized URL, linked to a company row when
\* the record carries a company name or domain; processed_people is the
\* number of such records; the other records are skipped without an error
\* and without a row.
C11_PersistPeopleStoresAndLinks ==
  (ing.pc = "once" /\ ing.kind = "PersistPeople" /\ ~ing.exits) =>
    /\ ing.err = NULL
    /\ ing.processed = Cardinality(NormalizingRecords(ing.batch))
    /\ \A i \in NormalizingRecords(ing.batch) :
         /\ Cardinality(RowsKeyedBy(people, ing.batch[i])) = 1
         /\ (Truthy(ing.batch[i].Company) \/ Truthy(ing.batch[i].Company_Domain)) =>
              \A r \in RowsKeyedBy(people, ing.batch[i]) :
                \E c \in companies : c.id = r.company_id
    /\ Cardinality(people) <= Cardinality(NormalizingRecords(ing.batch))

\* ------------------------------------------------------------------------
\* Properties of select_pending_enrichment
\* ------------------------------------------------------------------------
\* eligible: never enriched, or industries null or an empty list, or size null
Eligible(r) ==
  \/ r.last_enriched_at = NULL
  \/ r.enr["industries_json"] \in {NULL, "[]"}
  \/ r.enr["size_employees"] = NULL

ReturnedIds == {en.batch[i].id : i \in 1..Len(en.batch)}

UrlparseRaises(u) ==
  /\ u.scheme \notin {NULL, EMPTY}
  /\ \E i \in 1..Len(u.host) : u.host[i] = "[linkedin"

\* str.replace(lab + '.linkedin.com', 'linkedin.com') on a host given as its
\* labels; the comparison is case sensitive
RECURSIVE DropLabelBeforeLinkedIn(_, _)
DropLabelBeforeLinkedIn(h, lab) ==
  IF Len(h) < 3 THEN h
  ELSE IF h[1] = lab /\ h[2] = "linkedin" /\ h[3] = "com"
       THEN SubSeq(h, 2, Len(h))
       ELSE <<Head(h)>> \o DropLabelBeforeLinkedIn(Tail(h), lab)

\* any(pattern in clean_url.lower() for pattern in settings.linkedin_url_patterns):
\* every pattern holds "linkedin.com/in/", so the test is whether the
\* lowercased text holds that string: the host text ends in "linkedin.com"
\* and the path goes on with "/in/"
MatchesLinkedInPattern(host, path) ==
  LET h == MapSeq(LowerLabel, host)
  IN  /\ Len(h) >= 2
      /\ h[Len(h) - 1] \in {"linkedin", "notlinkedin", "[linkedin"}
      /\ h[Len(h)] = "com"
      /\ StartsWithIn(MapSeq(LowerChar, path))

\* LinkedInDataExtractor.clean_linkedin_url, for a url urlparse accepts
clean_linkedin_url(u) ==
  IF u = NoUrl THEN NoUrl
  ELSE
    LET path == UrlPath(u.rest)
        host == DropLabelBeforeLinkedIn(DropLabelBeforeLinkedIn(u.host, "de"), "www")
        scheme == IF u.scheme = NULL THEN EMPTY
                  ELSE IF u.scheme = "http" THEN "https" ELSE u.scheme
        parts == NonEmptyParts(rstripSlash(path))
    IN  IF ~MatchesLinkedInPattern(u.host, path) THEN NoUrl
        ELSE IF u.scheme # NULL /\ Len(parts) >= 2 /\ parts[1] = <<"i", "n">>
             THEN Canonical(parts[2])
             ELSE Url(scheme, host, path)

T_ann == "Ann Lee | LinkedIn"
T_bob == "Bob Ray - LinkedIn"
\* the two titles below hold an en dash (U+2013), written -- here
T_annHead == "Ann Lee -- Head of Sales | LinkedIn"
T_annCeo == "Ann Lee -- CEO | LinkedIn"

\* LinkedInDataExtractor.extract_name_from_title: the LinkedIn suffix is
\* removed and the text before an en dash is kept
extract_name_from_title(title) ==
  CASE title = T_ann -> "Ann Lee"
    [] title = T_bob -> "Bob Ray"
    [] title = T_annHead -> "Ann Lee"
    [] title = T_annCeo -> "Ann Lee"
    [] OTHER -> NULL

\* a search hit: google_result.link, google_result.title and whether
\* google_result carries "pagemap": null ("null") or no pagemap at all
SearchHit(link, title, pagemap) == [link |-> link, title |-> title, pagemap |-> pagemap]

NewExtractor ==
  [seen_urls |-> {}, successful_extractions |-> 0, failed_extractions |-> 0,
   duplicate_profiles_removed |-> 0]

\* A plausible fault, used to test the properties: a hit without a name is
\* rejected without being counted.
extract_raw_profile_data_NameUncounted(st, item) ==
  LET linkedin_url == clean_linkedin_url(item.link)
      name == extract_name_from_title(item.title)
      seen == [st EXCEPT !.seen_urls = @ \cup {linkedin_url}]
  IN  IF UrlparseRaises(item.link)
      THEN [st |-> st, ret |-> << >>, raised |-> TRUE]
      ELSE IF linkedin_url = NoUrl
      THEN [st |-> [st EXCEPT !.failed_extractions = @ + 1], ret |-> << >>, raised |-> FALSE]
      ELSE IF linkedin_url \in st.seen_urls
      THEN [st |-> [st EXCEPT !.duplicate_profiles_removed = @ + 1], ret |-> << >>,
            raised |-> FALSE]
      ELSE IF item.pagemap = "null"
      THEN [st |-> seen, ret |-> << >>, raised |-> TRUE]
      ELSE IF name = NULL
      THEN [st |-> seen, ret |-> << >>, raised |-> FALSE]
      ELSE [st |-> [seen EXCEPT !.successful_extractions = @ + 1],
            ret |-> <<[name |-> name, profile_url |-> linkedin_url]>>, raised |-> FALSE]

\* LinkedInDataExtractor.extract_raw_profile_data on the extractor st:
\* the extractor afterwards, the value returned (<< >> for None, else the
\* profile as a list of one) and
\* whether the call raised instead of returning
extract_raw_profile_data(st, item) ==
  LET linkedin_url == clean_linkedin_url(item.link)
      name == extract_name_from_title(item.title)
      seen == [st EXCEPT !.seen_urls = @ \cup {linkedin_url}]
  IN  IF UrlparseRaises(item.link)
      THEN [st |-> st, ret |-> << >>, raised |-> TRUE]
      ELSE IF linkedin_url = NoUrl
      THEN [st |-> [st EXCEPT !.failed_extractions = @ + 1], ret |-> << >>, raised |-> FALSE]
      ELSE IF linkedin_url \in st.seen_urls
      THEN [st |-> [st EXCEPT !.duplicate_profiles_removed = @ + 1], ret |-> << >>,
            raised |-> FALSE]
      ELSE IF item.pagemap = "null"
      THEN [st |-> seen, ret |-> << >>, raised |-> TRUE]
      ELSE IF name = NULL
      THEN [st |-> [seen EXCEPT !.failed_extractions = @ + 1], ret |-> << >>,
            raised |-> FALSE]
      ELSE [st |-> [seen EXCEPT !.successful_extractions = @ + 1],
            ret |-> <<[name |-> name, profile_url |-> linkedin_url]>>, raised |-> FALSE]

\* DataValidator.remove_duplicates
RECURSIVE UniqueProfiles(_, _)
UniqueProfiles(profiles, seen_urls) ==
  IF profiles = << >> THEN << >>
  ELSE LET url == Head(profiles).profile_url
       IN  IF url # NoUrl /\ url \notin seen_urls
           THEN <<Head(profiles)>> \o UniqueProfiles(Tail(profiles), seen_urls \cup {url})
           ELSE UniqueProfiles(Tail(profiles), seen_urls)

remove_duplicates(profiles) == UniqueProfiles(profiles, {})

\* extract_all_profiles(search_results), on a new extractor: before the loop
extract_all_profiles(batch) ==
  /\ xt.pc = "idle"
  /\ xt' = [pc |-> "loop", items |-> batch, i |-> 1, profiles |-> << >>,
            st |-> NewExtractor, rets |-> << >>]
  /\ UNCHANGED <<people, companies, outreach, seq, lastCall, hist, dd, en, ing, queries>>

\* one turn of the loop of extract_all_profiles; an exception raised by
\* extract_raw_profile_data leaves the loop and the function. rets keeps
\* what each call that returned gave back.
ExtractItem ==
  /\ xt.pc = "loop"
  /\ xt.i <= Len(xt.items)
  /\ LET res == extract_raw_profile_data(xt.st, xt.items[xt.i])
     IN  xt' = IF res.raised
               THEN [xt EXCEPT !.pc = "raised", !.st = res.st]
               ELSE [xt EXCEPT !.i = @ + 1, !.st = res.st,
                               !.profiles = @ \o res.ret,
                               !.rets = Append(@, res.ret)]
  /\ UNCHANGED <<people, companies, outreach, seq, lastCall, hist, dd, en, ing, queries>>

\* the loop is over: extract_all_profiles returns profiles
ExtractReturn ==
  /\ xt.pc = "loop"
  /\ xt.i > Len(xt.items)
  /\ xt' = [xt EXCEPT !.pc = "returned"]
  /\ UNCHANGED <<people, companies, outreach, seq, lastCall, hist, dd, en, ing, queries>>

\* unique = validator.remove_duplicates(profiles)
RemoveDuplicates ==
  /\ xt.pc = "returned"
  /\ xt' = [pc |-> "unique", items |-> xt.items, i |-> xt.i, profiles |-> xt.profiles,
            st |-> xt.st, rets |-> xt.rets, unique |-> remove_duplicates(xt.profiles)]
  /\ UNCHANGED <<people, companies, outreach, seq, lastCall, hist, dd, en, ing, queries>>

U_bracket == Url("https", <<"[linkedin", "com">>, <<"/", "i", "n", "/", "a">>)

HitLinks == {U_a, U_wwwA, U_dePct, U_b, U_other, U_bracket}

SearchHits ==
  {SearchHit(l, t, "absent") : l \in HitLinks, t \in {T_ann, T_bob, EMPTY}}
    \cup {SearchHit(U_a, T_ann, "null")}

InitExtract ==
  /\ InitPeople

NextExtract ==
  \/ \E batch \in (IF xt.pc = "idle" THEN Batches(SearchHits) ELSE {}) :
       extract_all_profiles(batch)
  \/ ExtractItem
  \/ ExtractReturn
  \/ RemoveDuplicates

SpecExtract == InitExtract /\ [][NextExtract]_vars

\* ------------------------------------------------------------------------
\* Properties of extraction and within-batch profile dedup
\* ------------------------------------------------------------------------
Identity(url) == normalize_linkedin_profile_url(url)

\* the profile a search hit gives when it is extracted on its own
ExtractsAlone(item) == extract_raw_profile_data(NewExtractor, item).ret

\* the first hit of the batch that gives a profile of the identity of p
FirstOccurrence(p) ==
  LET hits == {i \in 1..Len(xt.items) :
                 /\ ExtractsAlone(xt.items[i]) # << >>
                 /\ Identity(ExtractsAlone(xt.items[i])[1].profile_url)
                      = Identity(p.profile_url)}
  IN  IF hits = {} THEN 0 ELSE MinOf(hits)

\* C13: after extraction followed by remove_duplicates no two profiles of
\* the output have the same canonical identity (the normalised profile
\* URL), each kept profile is the one of the first hit of its identity in
\* the batch, and the kept profiles stand in the order of their hits.
C13_UniqueByCanonicalIdentity ==
  xt.pc = "unique" =>
    /\ \A i, j \in 1..Len(xt.unique) :
         i # j => Identity(xt.unique[i].profile_url) # Identity(xt.unique[j].profile_url)
    /\ \A i \in 1..Len(xt.unique) :
         /\ FirstOccurrence(xt.unique[i]) # 0
         /\ ExtractsAlone(xt.items[FirstOccurrence(xt.unique[i])]) = <<xt.unique[i]>>
    /\ \A i, j \in 1..Len(xt.unique) :
         i < j => FirstOccurrence(xt.unique[i]) < FirstOccurrence(xt.unique[j])

\* C16: extract_all_profiles goes through every hit of the batch: a hit
\* that fails (invalid URL, no usable name, an exception raised inside
\* extract_raw_profile_data) is counted and skipped, the hits after it are
\* still processed, and the call returns normally.
C16_FailureSkipsOnlyThatItem ==
  /\ xt.pc # "raised"
  /\ xt.pc \in {"returned", "unique"} =>
       /\ xt.i = Len(xt.items) + 1
       /\ xt.st.successful_extractions + xt.st.failed_extractions
            + xt.st.duplicate_profiles_removed = Len(xt.items)
       /\ Len(xt.profiles) = xt.st.successful_extractions

\* ------------------------------------------------------------------------
\* normalize_linkedin_profile_url as a function of its input
\* ------------------------------------------------------------------------
\* a caller normalises a URL it received (upsert_person, the people steps)
NormalizeCall(u) ==
  /\ lastCall.op = "none"
  /\ lastCall' = [op |-> "normalize_linkedin_profile_url", url |-> u,
                  ret |-> normalize_linkedin_profile_url(u), stored |-> FALSE]
  /\ UNCHANGED <<people, companies, outreach, seq, hist, dd, en, ing, xt, queries>>

\* a caller normalises a URL that is itself a result of the function
\* (cmd_dedupe_people on the stored linkedin_profile values)
NormalizeStored ==
  /\ lastCall.op = "normalize_linkedin_profile_url"
  /\ ~lastCall.stored
  /\ lastCall.ret # NoUrl
  /\ lastCall' = [op |-> "normalize_linkedin_profile_url", url |-> lastCall.ret,
                  ret |-> normalize_linkedin_profile_url(lastCall.ret), stored |-> TRUE]
  /\ UNCHANGED <<people, companies, outreach, seq, hist, dd, en, ing, xt, queries>>

\* the slugs of the profiles, in their canonical spelling
Slugs == {<<"a">>, <<"b">>, <<"a", "b">>}

UpperChar(c) ==
  CASE c = "a" -> "A"
    [] c = "b" -> "B"
    [] OTHER -> c

\* urllib.parse.quote of one character
PercentEncoded(c) ==
  CASE c = "a" -> <<"%", "6", "1">>
    [] c = "b" -> <<"%", "6", "2">>
    [] c = "A" -> <<"%", "4", "1">>
    [] c = "B" -> <<"%", "4", "2">>
    [] OTHER -> <<c>>

\* the ways of writing a slug that differ in letter case and percent-encoding
RECURSIVE SlugSpellings(_)
SlugSpellings(slug) ==
  IF slug = << >> THEN {<< >>}
  ELSE LET c == Head(slug)
           first == {<<c>>, <<UpperChar(c)>>, PercentEncoded(c), PercentEncoded(UpperChar(c))}
       IN  {f \o r : f \in first, r \in SlugSpellings(Tail(slug))}

HostVariants ==
  {<<"linkedin", "com">>, <<"www", "linkedin", "com">>, <<"de", "linkedin", "com">>,
   <<"uk", "linkedin", "com">>}

\* the profile URLs of one slug that differ only by scheme, host variant,
\* trailing slash, segments after the slug, slug case and slug encoding
ProfileUrlVariants(slug) ==
  {Url(scheme, host, <<"/", "i", "n", "/">> \o spelling \o segment \o slash) :
     scheme \in {"http", "https"}, host \in HostVariants,
     spelling \in SlugSpellings(slug),
     segment \in {<< >>, <<"/", "d", "e">>}, slash \in {<< >>, <<"/">>}}

U_encSlash ==
  Url("https", <<"linkedin", "com">>, <<"/", "i", "n", "/", "a", "%", "2", "F", "b">>)
U_encSpace ==
  Url("https", <<"linkedin", "com">>, <<"/", "i", "n", "/", "a", "%", "2", "5", "2", "0">>)

NormalizeInputs ==
  UNION {ProfileUrlVariants(slug) : slug \in Slugs}
    \cup {NoUrl, U_other, U_bare, U_pct1, U_pct2, U_pct2s, U_encSlash, U_encSpace}

InitNormalize == InitPeople

NextNormalize ==
  \/ \E u \in (IF lastCall.op = "none" THEN NormalizeInputs ELSE {}) : NormalizeCall(u)
  \/ NormalizeStored

SpecNormalize == InitNormalize /\ [][NextNormalize]_vars

\* C14: two valid profile URLs that differ only by scheme, host variant
\* (www. or a country code), trailing slash, segments after the slug, slug
\* letter case or slug percent-encoding normalise to one and the same
\* string, https://linkedin.com/in/{slug}.
C14_VariantsShareCanonical ==
  \A slug \in Slugs :
    (lastCall.op = "normalize_linkedin_profile_url" /\ lastCall.url \in ProfileUrlVariants(slug))
      => lastCall.ret = Url("https", <<"linkedin", "com">>, <<"/", "i", "n", "/">> \o slug)

C14_Witness ==
  /\ lastCall.op = "normalize_linkedin_profile_url"
  /\ lastCall.url = Url("http", <<"uk", "linkedin", "com">>,
                        <<"/", "i", "n", "/", "%", "4", "1", "B", "/", "d", "e", "/">>)
  /\ lastCall.ret = Url("https", <<"linkedin", "com">>, <<"/", "i", "n", "/", "a", "b">>)

\* C15: normalisation is idempotent: when normalize_linkedin_profile_url(u)
\* is a string c, normalize_linkedin_profile_url(c) is c again, also for
\* slugs with percent signs, encoded separators or whitespace once decoded.
C15_NormalizationIdempotent ==
  (lastCall.op = "normalize_linkedin_profile_url" /\ lastCall.stored)
    => lastCall.ret = lastCall.url

\* ------------------------------------------------------------------------
\* QueriesRepo
\* ------------------------------------------------------------------------
\* a query text is the list of its characters; NoText is None
NoText == <<"None">>

\* " ".join(lowered.split()) on a text without leading or trailing space
RECURSIVE CollapseSpaces(_)
CollapseSpaces(s) ==
  IF Len(s) < 2 THEN s
  ELSE IF IsSpace(s[1]) /\ IsSpace(s[2]) THEN CollapseSpaces(Tail(s))
       ELSE <<Head(s)>> \o CollapseSpaces(Tail(s))

_normalize_query_text(query_text) ==
  IF query_text = NoText \/ query_text = << >> THEN << >>
  ELSE CollapseSpaces(strip(MapSeq(LowerChar, query_text)))

\* the identity of a search_queries row: at most one row may hold a given
\* (source, entity_type, normalized_query)
QueryKey(r) == <<r.source, r.entity_type, r.normalized_query>>

QueryKeyTaken(tbl, source, entity_type, normalized) ==
  \E r \in tbl : QueryKey(r) = <<source, entity_type, normalized>>

\* the id the table gives a new row
NextQueryId(tbl) == Cardinality(tbl) + 1

\* SELECT id FROM search_queries WHERE source = ? AND entity_type = ?
\*   AND normalized_query = ?  (fetchone: the row of the smallest id)
SelectQueryId_AnySource(tbl, source, entity_type, normalized) ==
  LET hits == {r.id : r \in {x \in tbl : /\ x.entity_type = entity_type
                                         /\ x.normalized_query = normalized}}
  IN  IF hits = {} THEN NoId ELSE MinOf(hits)

SelectQueryId(tbl, source, entity_type, normalized) ==
  LET hits == {r.id : r \in {x \in tbl : /\ x.source = source
                                         /\ x.entity_type = entity_type
                                         /\ x.normalized_query = normalized}}
  IN  IF hits = {} THEN NoId ELSE MinOf(hits)

\* QueriesRepo.find_or_create: the table afterwards and the id returned
\* (err when the row is not found)
FindOrCreateResult(tbl, source, entity_type, query_text, now) ==
  LET normalized == _normalize_query_text(query_text)
      src == Or(source, EMPTY)
      text == IF query_text = NoText THEN << >> ELSE query_text
      inserted ==
        IF QueryKeyTaken(tbl, src, entity_type, normalized) THEN tbl
        ELSE tbl \cup {[id |-> NextQueryId(tbl), source |-> src,
                        entity_type |-> entity_type, query_text |-> text,
                        normalized_query |-> normalized, last_executed_at |-> NULL]}
      query_id == SelectQueryId(inserted, src, entity_type, normalized)
  IN  IF query_id = NoId
      THEN [tbl |-> tbl, ret |-> NoId, err |-> "RuntimeError"]
      ELSE [tbl |-> {IF r.id = query_id THEN [r EXCEPT !.last_executed_at = now] ELSE r :
                       r \in inserted},
            ret |-> query_id, err |-> NULL]

find_or_create(source, entity_type, query_text) ==
  /\ hist.calls < MaxCalls
  /\ LET res == FindOrCreateResult(queries, source, entity_type, query_text, hist.calls + 1)
     IN  /\ queries' = res.tbl
         /\ lastCall' = [op |-> "find_or_create", source |-> source,
                         entity_type |-> entity_type, query_text |-> query_text,
                         before |-> queries, ret |-> res.ret, err |-> res.err]
         /\ hist' = [hist EXCEPT !.calls = @ + 1,
                                 !.rets = @ \cup {[source |-> source,
                                                   entity_type |-> entity_type,
                                                   query_text |-> query_text,
                                                   ret |-> res.ret, err |-> res.err]}]
  /\ UNCHANGED <<people, companies, outreach, seq, dd, en, ing, xt>>

QuerySources == {"linkedin_people_google", "another_source", NULL}
QueryEntityTypes == {"person", "company"}
QueryTexts ==
  {<<" ", "A", " ", " ", "B", " ">>, <<"a", " ", "b">>, <<"a", "b">>, NoText}

InitQueries == InitPeople

NextQueries ==
  \E source \in QuerySources, entity_type \in QueryEntityTypes, query_text \in QueryTexts :
    find_or_create(source, entity_type, query_text)

SpecQueries == InitQueries /\ [][NextQueries]_vars

\* ------------------------------------------------------------------------
\* Properties of QueriesRepo
\* ------------------------------------------------------------------------
\* two calls name the same query: the same source, the same entity type and
\* texts of the same normalised form
SameQuery(c1, c2) ==
  /\ Or(c1.source, EMPTY) = Or(c2.source, EMPTY)
  /\ c1.entity_type = c2.entity_type
  /\ _normalize_query_text(c1.query_text) = _normalize_query_text(c2.query_text)

\* C17: find_or_create returns the same id for two calls with the same
\* source and entity type whose texts have the same normalised form; there
\* is at most one row per (source, entity_type, normalized_query); calls
\* with different sources return different ids; no call deletes a row.
C17_OneIdPerQuery ==
  /\ \A c \in hist.rets : c.err = NULL /\ c.ret # NoId
  /\ \A c1, c2 \in hist.rets : SameQuery(c1, c2) => c1.ret = c2.ret
  /\ \A r1, r2 \in queries : QueryKey(r1) = QueryKey(r2) => r1 = r2
  /\ \A c1, c2 \in hist.rets :
       Or(c1.source, EMPTY) # Or(c2.source, EMPTY) => c1.ret # c2.ret
  /\ \A c \in hist.rets : \E r \in queries : r.id = c.ret
  /\ lastCall.op = "find_or_create" =>
       \A r \in lastCall.before : \E x \in queries : x.id = r.id /\ QueryKey(x) = QueryKey(r)

C17_Witness ==
  /\ \E c1, c2, c3 \in hist.rets :
       /\ c1.source = "linkedin_people_google" /\ c2.source = "linkedin_people_google"
       /\ c1.query_text = <<" ", "A", " ", " ", "B", " ">>
       /\ c2.query_text = <<"a", " ", "b">>
       /\ c3.source = "another_source" /\ c3.query_text = <<"a", " ", "b">>
       /\ c1.entity_type = "person" /\ c2.entity_type = "person" /\ c3.entity_type = "person"
       /\ c1.ret = c2.ret /\ c3.ret # c1.ret
  /\ Cardinality(queries) = 2

\* ------------------------------------------------------------------------
\* DataValidator.remove_company_duplicates as a function of its input
\* ------------------------------------------------------------------------
RemoveCompanyDuplicatesCall(batch) ==
  /\ lastCall.op = "none"
  /\ lastCall' = [op |-> "remove_company_duplicates", companies |-> batch,
                  ret |-> remove_company_duplicates(batch)]
  /\ UNCHANGED <<people, companies, outreach, seq, hist, dd, en, ing, xt, queries>>

AddressedCompanyRecords ==
  [Company : {NULL, "Acme", " Acme"}, Company_Domain : {NULL, EMPTY, "acme.com", "ACME.com"},
   address : {NULL, "Berlin", " Berlin"}]

InitCompanyDedup == InitPeople

NextCompanyDedup ==
  \E batch \in (IF lastCall.op = "none" THEN Batches(AddressedCompanyRecords) ELSE {}) :
    RemoveCompanyDuplicatesCall(batch)

SpecCompanyDedup == InitCompanyDedup /\ [][NextCompanyDedup]_vars

\* two records have the same key: both carry a domain and the lowercased
\* domains are equal, or neither carries one and the lowercased trimmed
\* names and the lowercased trimmed addresses are equal
SameClaimedKey(a, b) ==
  IF Truthy(a.Company_Domain) /\ Truthy(b.Company_Domain)
  THEN LowerText(a.Company_Domain) = LowerText(b.Company_Domain)
  ELSE /\ ~Truthy(a.Company_Domain)
       /\ ~Truthy(b.Company_Domain)
       /\ LowerText(StripText(a.Company)) = LowerText(StripText(b.Company))
       /\ LowerText(StripText(a.address)) = LowerText(StripText(b.address))

\* the positions of the records of the input no earlier record has the key of
FirstOfKey(in) ==
  {i \in 1..Len(in) : \A j \in 1..(i - 1) : ~SameClaimedKey(in[j], in[i])}

KthOf(S, k) == CHOOSE i \in S : Cardinality({j \in S : j <= i}) = k

\* C18: remove_company_duplicates returns the subsequence of its input made
\* of the records no earlier record has the key of; the key is the
\* lowercased domain when there is one, else the lowercased trimmed name
\* with the lowercased trimmed address; a record with a domain is never
\* dropped for a match of name and address.
C18_FirstOfEachKeyKept ==
  lastCall.op = "remove_company_duplicates" =>
    LET in == lastCall.companies
        out == lastCall.ret
        kept == FirstOfKey(in)
    IN  /\ Len(out) = Cardinality(kept)
        /\ \A k \in 1..Len(out) : out[k] = in[KthOf(kept, k)]
        /\ \A i \in 1..Len(in) :
             (Truthy(in[i].Company_Domain) /\ i \notin kept) =>
               \E j \in 1..(i - 1) :
                 /\ Truthy(in[j].Company_Domain)
                 /\ LowerText(in[j].Company_Domain) = LowerText(in[i].Company_Domain)

C18_Witness ==
  /\ lastCall.op = "remove_company_duplicates"
  /\ Len(lastCall.companies) = 2
  /\ \/ /\ ~Truthy(lastCall.companies[1].Company_Domain)
        /\ lastCall.companies[2].Company_Domain = "ACME.com"
        /\ lastCall.companies[1].Company = " Acme"
        /\ lastCall.companies[2].Company = "Acme"
        /\ lastCall.companies[1].address = lastCall.companies[2].address
        /\ Len(lastCall.ret) = 2
     \/ /\ lastCall.companies[1].Company_Domain = "acme.com"
        /\ lastCall.companies[2].Company_Domain = "ACME.com"
        /\ lastCall.companies[1].address # lastCall.companies[2].address
        /\ Len(lastCall.ret) = 1
     \/ /\ lastCall.companies[1].Company_Domain = NULL
        /\ lastCall.companies[2].Company_Domain = EMPTY
        /\ lastCall.companies[1].Company = " Acme"
        /\ lastCall.companies[2].Company = "Acme"
        /\ lastCall.companies[1].address = " Berlin"
        /\ lastCall.companies[2].address = "Berlin"
        /\ Len(lastCall.ret) = 1

\* ------------------------------------------------------------------------
\* upsert_by_domain without a domain
\* ------------------------------------------------------------------------
UpsertWithoutDomain ==
  lastCall.op = "upsert_by_domain" /\ ~Truthy(lastCall.domain)

\* C19: upsert_by_domain called without a domain (None or '') inserts
\* exactly one new row and returns its new id, also when a row of the same
\* name exists, and changes no row that was there.
C19_NoDomainAlwaysInserts ==
  UpsertWithoutDomain =>
    /\ lastCall.err = NULL
    /\ lastCall.before \subseteq companies
    /\ Cardinality(companies \ lastCall.before) = 1
    /\ \A r \in companies \ lastCall.before :
         /\ r.id = lastCall.ret
         /\ \A b \in lastCall.before : b.id # r.id

C19_Witness ==
  /\ UpsertWithoutDomain
  /\ lastCall.domain = EMPTY
  /\ \E b \in lastCall.before, r \in companies \ lastCall.before :
       /\ b.name = r.name
       /\ b.name = lastCall.name
       /\ r.id = lastCall.ret

\* ------------------------------------------------------------------------
\* Writes of EnrichAndPersistCompanies.run
\* ------------------------------------------------------------------------
\* a step that issues save_company_enrichment
EnrichWrite ==
  \/ companies' # companies
  \/ lastCall' # lastCall /\ lastCall'.op = "update_enrichment"

\* C20: no save_company_enrichment is issued before every fetch task of
\* the batch has completed or failed, and each write is a step of the
\* calling thread alone, never of a fetch worker, whatever the order in
\* which the workers run.
C20_WritesAfterAllFetches ==
  [][EnrichWrite =>
       /\ en.pc = "persisting"
       /\ \A i \in 1..Len(en.batch) : en.st[i] = "done"
       /\ Len(en.results) = Len(en.batch)
       /\ en'.st = en.st
       /\ en'.results = en.results
       /\ en'.out = en.out]_vars

C20_Witness ==
  /\ en.pc \in {"persisting", "done"}
  /\ Len(en.batch) >= 2
  /\ en.updated >= 1
  /\ en.results[1].id # en.batch[1].id
  /\ lastCall.op = "update_enrichment"
  /\ companies # en.snapshot

\* ------------------------------------------------------------------------
\* Atomicity of the merge
\* ------------------------------------------------------------------------
\* a row of a group other than the one of smallest id
IsDuplicate(d) ==
  d.id # MinOf(GroupIds(dd.before.people, NormKey(d.linkedin_profile)))

\* a duplicate is gone from the store and a value it held is in no row left
\* of its group
DeletedWithoutTransfer(d) ==
  /\ ~HasRow(people, d.id)
  /\ IsDuplicate(d)
  /\ \/ \E c \in PersonCols :
          /\ d.col[c] # NULL /\ d.col[c] # EMPTY
          /\ \A r \in Survivors(NormKey(d.linkedin_profile)) : r.col[c] = NULL
     \/ d.company_id # NoId /\ \A r \in Survivors(NormKey(d.linkedin_profile)) : r.company_id = NoId

\* a message that referenced a duplicate references something else while
\* the duplicate is still stored
RepointedWhileStored(d) ==
  /\ HasRow(people, d.id)
  /\ \E m \in dd.before.outreach :
       /\ m.linkedin_profile = d.linkedin_profile
       /\ \E n \in outreach : n.id = m.id /\ n.linkedin_profile # m.linkedin_profile
  /\ IsDuplicate(d)

\* a duplicate is gone from the store and a message still holds its string,
\* which no stored row carries
DeletedWhileReferenced(d) ==
  /\ ~HasRow(people, d.id)
  /\ \E m \in outreach : m.linkedin_profile = d.linkedin_profile
  /\ \A r \in people : r.linkedin_profile # d.linkedin_profile
  /\ IsDuplicate(d)

PartiallyMerged(d) ==
  \/ DeletedWithoutTransfer(d)
  \/ RepointedWhileStored(d)
  \/ DeletedWhileReferenced(d)

\* C21: when cmd_dedupe_people fails or is stopped while it works on a
\* group, the committed store never shows that group partially merged: no
\* duplicate deleted without its values transferred, no message repointed
\* while the duplicate is still stored, no duplicate deleted while a
\* message still references it.
C21_NoGroupHalfMergedInStore ==
  dd.pc # "idle" =>
    /\ \A d \in dd.before.people : ~PartiallyMerged(d)
    /\ dd.pc # "done" => (people = dd.before.people /\ outreach = dd.before.outreach)

C21_Witness ==
  /\ dd.pc = "failed"
  /\ dd.err = "Interrupted"
  /\ dd.merged >= 1
  /\ \E d \in dd.before.people :
       /\ IsDuplicate(d)
       /\ ~HasRow(dd.people, d.id)
       /\ HasRow(people, d.id)
       /\ d.col["first_name"] # NULL
       /\ \E m \in outreach : m.linkedin_profile = d.linkedin_profile
       /\ \E m \in dd.outreach : m.linkedin_profile # d.linkedin_profile
  /\ dd.dups # << >>

\* ------------------------------------------------------------------------
\* What the merge writes into the primary
\* ------------------------------------------------------------------------
\* the row of smallest id of the group of key k, as stored before the run
PrimaryBefore(k) ==
  RowOf(dd.before.people, MinOf(GroupIds(dd.before.people, k)))

\* the duplicates of the group of key k already merged and deleted with an
\* id smaller than d's
MergedEarlier(d, k) ==
  {q \in dd.before.people :
     /\ q.id < d.id
     /\ ~HasRow(dd.people, q.id)
     /\ NormKey(q.linkedin_profile) = k}

\* the mergeable values of a people row: the named columns, lookup_date and
\* company_id, each with whether it is NULL and whether the merge copies it
\* (neither None nor '')
Mergeable(r) ==
  [c \in PersonCols |->
     [v |-> r.col[c], null |-> r.col[c] = NULL,
      copied |-> r.col[c] # NULL /\ r.col[c] # EMPTY]] @@
  [c \in {"lookup_date"} |->
     [v |-> r.lookup_date, null |-> r.lookup_date = NULL,
      copied |-> r.lookup_date # NULL /\ r.lookup_date # EMPTY]] @@
  [c \in {"company_id"} |->
     [v |-> r.company_id, null |-> r.company_id = NoId, copied |-> r.company_id # NoId]]

MergedAsClaimed(d) ==
  LET k == NormKey(d.linkedin_profile)
      primary == PrimaryBefore(k)
      before == Mergeable(primary)
      now == Mergeable(RowOf(dd.people, primary.id))
      mine == Mergeable(d)
      earlier == MergedEarlier(d, k)
  IN  \A c \in DOMAIN mine :
        /\ ~before[c].null => now[c].v = before[c].v
        /\ ( /\ before[c].null
             /\ mine[c].copied
             /\ \A q \in earlier : ~Mergeable(q)[c].copied )
           => now[c].v = mine[c].v

\* C22: during the merge every mergeable column that is non-null in the
\* primary row keeps its value, and a column that is null in the primary
\* takes the value of the duplicate of smallest id that holds one.
C22_PrimaryKeptSmallestDuplicateFills ==
  dd.pc # "idle" =>
    \A d \in dd.before.people : ~HasRow(dd.people, d.id) => MergedAsClaimed(d)

C22_Witness ==
  /\ dd.pc = "done"
  /\ \E d1, d2 \in dd.before.people :
       /\ d1.id < d2.id
       /\ ~HasRow(people, d1.id) /\ ~HasRow(people, d2.id)
       /\ NormKey(d1.linkedin_profile) = NormKey(d2.linkedin_profile)
       /\ Mergeable(d1)["first_name"].copied /\ Mergeable(d2)["first_name"].copied
       /\ d1.col["first_name"] # d2.col["first_name"]
       /\ LET primary == PrimaryBefore(NormKey(d1.linkedin_profile))
          IN  /\ primary.col["first_name"] = NULL
              /\ primary.lookup_date # NULL
              /\ RowOf(people, primary.id).col["first_name"] = d1.col["first_name"]
              /\ RowOf(people, primary.id).lookup_date = primary.lookup_date

\* ------------------------------------------------------------------------
\* Repeated calls of extract_raw_profile_data on one extractor
\* ------------------------------------------------------------------------
\* C23: calling extract_raw_profile_data again on the same search hit with
\* the same extractor returns what the first call returned, and no call
\* changes what a later call returns: each call returns what it returns on
\* an extractor that made no call before.
C23_SecondCallSameResult ==
  xt.pc # "idle" =>
    /\ \A i, j \in 1..Len(xt.rets) : xt.items[i] = xt.items[j] => xt.rets[i] = xt.rets[j]
    /\ \A i \in 1..Len(xt.rets) : xt.rets[i] = ExtractsAlone(xt.items[i])

\* the second call on a hit that gave a profile returns None
C23_Retried ==
  /\ xt.pc # "idle"
  /\ \E i, j \in 1..Len(xt.rets) :
       /\ i < j
       /\ xt.items[i] = xt.items[j]
       /\ xt.rets[i] # << >>
       /\ xt.rets[j] = << >>

\* ------------------------------------------------------------------------
\* Enrichment and the stored domain
\* ------------------------------------------------------------------------
\* the results of the run already written by the persistence loop
Persisted == IF en.pc \in {"persisting", "done"} THEN 1..(en.next - 1) ELSE {}

\* the domain of company id changed since the batch was loaded
DomainChanged(id) == RowOf(companies, id).domain # RowOf(en.snapshot, id).domain

\* C24: a company whose domain was non-null when the batch was loaded has
\* the same stored domain after EnrichAndPersistCompanies.run, whatever
\* Website its payload holds; a stored domain changes only for a company of
\* the batch that had none, to the apex domain of its payload's website.
C24_KnownDomainKept ==
  en.pc \in {"fetching", "persisting", "done", "failed"} =>
    /\ \A r \in en.snapshot :
         r.domain # NULL => RowOf(companies, r.id).domain = r.domain
    /\ \A r \in en.snapshot :
         DomainChanged(r.id) =>
           \E i \in Persisted :
             /\ en.results[i].id = r.id
             /\ r.domain = NULL
             /\ RowOf(companies, r.id).domain
                  = extract_apex_domain(en.results[i].data.d.Website)

C24_Witness ==
  /\ en.pc = "done"
  /\ \E i, j \in Persisted :
       /\ en.results[i].domain = "acme.com"
       /\ en.results[i].data.d.Website = "https://www.gamma.de/kontakt"
       /\ RowOf(companies, en.results[i].id).domain = "acme.com"
       /\ RowOf(companies, en.results[i].id).website = "https://www.gamma.de/kontakt"
       /\ en.results[j].domain = NULL
       /\ RowOf(companies, en.results[j].id).domain = "gamma.de"

\* ------------------------------------------------------------------------
\* _derive_legal_form as a function of the name and the supplied value
\* ------------------------------------------------------------------------
\* legal_form = _derive_legal_form(name, data.get("Legal_Form"))
DeriveLegalFormCall(name, provided) ==
  /\ lastCall.op = "none"
  /\ lastCall' = [op |-> "_derive_legal_form", name |-> name, provided |-> provided,
                  ret |-> _derive_legal_form(name, provided)]
  /\ UNCHANGED <<people, companies, outreach, seq, hist, dd, en, ing, xt, queries>>

LegalFormNames ==
  {NULL, EMPTY, "Acme", "Acme GmbH", "Acme GmbH & Co. KG", "Beta AG", "Beta AG & Co KG",
   "Gamma SE", "Gamma SE & Co. KG", "Delta KGaA", "Delta UG", "Delta OHG", "Delta KG",
   "Hans Meier e.K.", "Acme AG GmbH"}

SuppliedLegalForms ==
  {NULL, EMPTY, " ", "Gesellschaft mit beschraenkter Haftung", "gmbh", "GmbH", " Ltd ",
   "Aktiengesellschaft (AG)", "'AG'", "ek", "e.K."}

InitLegalForm ==
  /\ InitPeople

NextLegalForm ==
  \E name \in LegalFormNames, provided \in SuppliedLegalForms :
    DeriveLegalFormCall(name, provided)

SpecLegalForm == InitLegalForm /\ [][NextLegalForm]_vars

\* the listed compound forms a name holds as whole words
CompoundFormsIn(name) ==
  LET words == NameWords(name)
  IN  {f \in {"GmbH & Co. KG", "AG & Co. KG", "SE & Co. KG"} :
         HasCompound(words, CASE f = "GmbH & Co. KG" -> "gmbh"
                              [] f = "AG & Co. KG" -> "ag"
                              [] OTHER -> "se")}
        \cup {f \in {"KGaA"} : HasWord(words, "kgaa")}

\* the listed simple forms a name holds as whole words
SimpleFormsIn(name) ==
  LET words == NameWords(name)
      word == [f \in {"GmbH", "AG", "SE", "UG", "KG", "OHG", "e.K."} |->
                 CASE f = "GmbH" -> "gmbh" [] f = "AG" -> "ag" [] f = "SE" -> "se"
                   [] f = "UG" -> "ug" [] f = "KG" -> "kg" [] f = "OHG" -> "ohg"
                   [] OTHER -> "e.k."]
  IN  {f \in DOMAIN word : HasWord(words, word[f])}

\* C25: when the company name holds one of the listed legal forms as a
\* whole word, _derive_legal_form returns a canonical form found in the
\* name, a compound one when the name holds a compound one, whatever value
\* is supplied; only when the name holds none is the result the
\* canonicalized supplied value.
C25_NameFormWins ==
  lastCall.op = "_derive_legal_form" =>
    IF CompoundFormsIn(lastCall.name) # {}
    THEN lastCall.ret \in CompoundFormsIn(lastCall.name)
    ELSE IF SimpleFormsIn(lastCall.name) # {}
    THEN lastCall.ret \in SimpleFormsIn(lastCall.name)
    ELSE lastCall.ret = _canonicalize_legal_form(lastCall.provided)

\* the same statement without the form e.K.
LegalFormFoundExceptEk ==
  (lastCall.op = "_derive_legal_form" /\ "e.K." \notin SimpleFormsIn(lastCall.name)) =>
    IF CompoundFormsIn(lastCall.name) # {}
    THEN lastCall.ret \in CompoundFormsIn(lastCall.name)
    ELSE IF SimpleFormsIn(lastCall.name) # {}
    THEN lastCall.ret \in SimpleFormsIn(lastCall.name)
    ELSE lastCall.ret = _canonicalize_legal_form(lastCall.provided)

\* ------------------------------------------------------------------------
\* extract_raw_profile_data with the LLM path
\* ------------------------------------------------------------------------
\* LinkedInDataExtractor.extract_headline_from_title: the title without the
\* LinkedIn suffix and without the name and its separator, when longer than
\* three characters; else the text after the first separator when longer
\* than three; else None
extract_headline_from_title(title, name) ==
  CASE ~Truthy(title) \/ ~Truthy(name) -> NULL
    [] title = T_ann -> "Ann Lee"
    [] title = T_bob -> "Bob Ray"
    [] title = T_annHead -> "Head of Sales"
    [] OTHER -> NULL

S_followers == "Sales lead. 1K followers"
OG_connections == "500+ connections at Acme"

\* LinkedInDataExtractor.extract_follower_and_connection_data: the number
\* before "followers" in the snippet, the number before "connections" in
\* og:description
extract_follower_and_connection_data(item) ==
  [follower_count |-> IF item.snippet = S_followers THEN "1K" ELSE NULL,
   connection_count |-> IF item.og = OG_connections THEN "500+" ELSE NULL]

\* what AIProfileExtractor.extract_structured_data returns: the validated
\* fields, with NULL for a key the dict does not hold; {} on failure
Extraction(current_position, follower_count, connection_count) ==
  [current_position |-> current_position, follower_count |-> follower_count,
   connection_count |-> connection_count]

EmptyExtraction == Extraction(NULL, NULL, NULL)

Extractions ==
  {EmptyExtraction, Extraction("VP Sales", NULL, NULL), Extraction(NULL, "2K", NULL),
   Extraction("VP Sales", "2K", "300")}

\* len(text.strip()) > 3
LongerThanThree(text) == Truthy(text) /\ text \notin {"CEO", "2K", "1K", "300"}

\* A plausible fault, used to test the properties: the LLM's fields are
\* taken as they are.
profile_data_NoFallback(use_ai, ai_extracted, item, name, linkedin_url) ==
  LET headline == extract_headline_from_title(item.title, name)
      regex == extract_follower_and_connection_data(item)
  IN  IF use_ai
      THEN [name |-> name, profile_url |-> linkedin_url,
            current_position |-> IF LongerThanThree(ai_extracted.current_position)
                                 THEN ai_extracted.current_position ELSE NULL,
            follower_count |-> ai_extracted.follower_count,
            connection_count |-> ai_extracted.connection_count,
            structured_data |-> << >>]
      ELSE [name |-> name, profile_url |-> linkedin_url,
            current_position |-> IF LongerThanThree(headline) THEN headline ELSE NULL,
            follower_count |-> NULL, connection_count |-> NULL,
            structured_data |-> IF regex = Extraction(NULL, NULL, NULL) THEN << >>
                                ELSE <<regex>>]

\* profile_data of extract_raw_profile_data, lines 754-847: the keys the
\* model follows, NULL for a key that is not set
profile_data(use_ai, ai_extracted, item, name, linkedin_url) ==
  LET headline == extract_headline_from_title(item.title, name)
      regex == extract_follower_and_connection_data(item)
      current_position == Or(ai_extracted.current_position, headline)
      incomplete == \/ ~Truthy(ai_extracted.follower_count)
                    \/ ~Truthy(ai_extracted.connection_count)
      follower_count == IF incomplete
                        THEN Or(ai_extracted.follower_count, regex.follower_count)
                        ELSE ai_extracted.follower_count
      connection_count == IF incomplete
                          THEN Or(ai_extracted.connection_count, regex.connection_count)
                          ELSE ai_extracted.connection_count
  IN  IF use_ai
      THEN [name |-> name, profile_url |-> linkedin_url,
            current_position |-> IF LongerThanThree(current_position)
                                 THEN current_position ELSE NULL,
            follower_count |-> IF Truthy(follower_count) THEN follower_count ELSE NULL,
            connection_count |-> IF Truthy(connection_count) THEN connection_count
                                 ELSE NULL,
            structured_data |-> << >>]
      ELSE [name |-> name, profile_url |-> linkedin_url,
            current_position |-> IF LongerThanThree(headline) THEN headline ELSE NULL,
            follower_count |-> NULL, connection_count |-> NULL,
            structured_data |-> IF regex.follower_count = NULL /\ regex.connection_count = NULL
                                THEN << >> ELSE <<regex>>]

\* one call of extract_raw_profile_data on a new extractor built with or
\* without the LLM path; ai_extracted is what the LLM step returns when it
\* is asked
ExtractRawProfileDataCall(use_ai, ai_extracted, item) ==
  /\ lastCall.op = "none"
  /\ use_ai \/ ai_extracted = EmptyExtraction
  /\ LET res == extract_raw_profile_data(NewExtractor, item)
     IN  lastCall' = [op |-> "extract_raw_profile_data", use_ai |-> use_ai,
                      ai_extracted |-> ai_extracted, item |-> item,
                      raised |-> res.raised, st |-> res.st,
                      ret |-> IF res.ret = << >> THEN << >>
                              ELSE <<profile_data(use_ai, ai_extracted, item,
                                                  res.ret[1].name, res.ret[1].profile_url)>>]
  /\ UNCHANGED <<people, companies, outreach, seq, hist, dd, en, ing, xt, queries>>

DetailedHits ==
  {[link |-> l, title |-> t, pagemap |-> IF og = NULL THEN "absent" ELSE "metatags",
    snippet |-> sn, og |-> og] :
     l \in {U_wwwA, U_other}, t \in {T_ann, T_annHead, T_annCeo, EMPTY},
     sn \in {EMPTY, S_followers}, og \in {NULL, OG_connections}}
    \cup {[link |-> U_a, title |-> T_ann, pagemap |-> "null", snippet |-> EMPTY, og |-> NULL]}

InitExtractAI ==
  /\ InitPeople

NextExtractAI ==
  \E use_ai \in BOOLEAN, ai_extracted \in Extractions, item \in DetailedHits :
    ExtractRawProfileDataCall(use_ai, ai_extracted, item)

SpecExtractAI == InitExtractAI /\ [][NextExtractAI]_vars

\* a hit with a LinkedIn profile URL and a name in its title
Extractable(item) ==
  /\ ~UrlparseRaises(item.link)
  /\ clean_linkedin_url(item.link) # NoUrl
  /\ item.pagemap # "null"
  /\ extract_name_from_title(item.title) # NULL

\* C26: with the LLM path enabled and extract_structured_data returning an
\* empty dict, extract_raw_profile_data returns a profile for a hit with a
\* profile URL and a name, raises nothing, and the profile's
\* current_position is the heuristic headline and its follower and
\* connection counts are the ones the regular expressions find.
C26_LlmFailureFallsBack ==
  ( /\ lastCall.op = "extract_raw_profile_data"
    /\ lastCall.use_ai
    /\ lastCall.ai_extracted = EmptyExtraction
    /\ Extractable(lastCall.item) ) =>
    /\ ~lastCall.raised
    /\ Len(lastCall.ret) = 1
    /\ LET headline == extract_headline_from_title(lastCall.item.title, lastCall.ret[1].name)
       IN  lastCall.ret[1].current_position = headline
    /\ lastCall.ret[1].follower_count
         = extract_follower_and_connection_data(lastCall.item).follower_count
    /\ lastCall.ret[1].connection_count
         = extract_follower_and_connection_data(lastCall.item).connection_count

C26_Witness ==
  /\ lastCall.op = "extract_raw_profile_data"
  /\ lastCall.use_ai
  /\ lastCall.ai_extracted = EmptyExtraction
  /\ lastCall.item.title = T_annHead
  /\ Len(lastCall.ret) = 1
  /\ lastCall.ret[1].current_position = "Head of Sales"
  /\ lastCall.ret[1].follower_count = "1K"
  /\ lastCall.ret[1].connection_count = "500+"

\* ------------------------------------------------------------------------
\* The counters of the extractor
\* ------------------------------------------------------------------------
Counted(st) ==
  st.successful_extractions + st.failed_extractions + st.duplicate_profiles_removed

CountersAddUp ==
  xt.pc # "idle" =>
    /\ Counted(xt.st) = Len(xt.rets)
    /\ xt.st.successful_extractions
         = Cardinality({i \in 1..Len(xt.rets) : xt.rets[i] # << >>})

\* a call returned: one counter is greater by one, the other two are as
\* they were, and it is successful_extractions exactly when the call
\* returned a profile
OneCounterPerCall ==
  (xt.pc = "loop" /\ xt'.pc = "loop" /\ Len(xt'.rets) = Len(xt.rets) + 1) =>
    LET inc == [c \in {"successful_extractions", "failed_extractions",
                       "duplicate_profiles_removed"} |-> xt'.st[c] - xt.st[c]]
    IN  /\ \E c \in DOMAIN inc :
             inc[c] = 1 /\ \A o \in DOMAIN inc \ {c} : inc[o] = 0
        /\ inc["successful_extractions"] = 1 <=> xt'.rets[Len(xt'.rets)] # << >>

\* C27: after any sequence of extract_raw_profile_data calls that return,
\* successful_extractions + failed_extractions + duplicate_profiles_removed
\* is the number of calls, each call increments exactly one of the three
\* counters, and successful_extractions is the number of results that are
\* not None.
C27_CountersExhaustiveExclusive ==
  []CountersAddUp /\ [][OneCounterPerCall]_vars

C27_Witness ==
  /\ xt.pc = "returned"
  /\ Len(xt.rets) = 2
  /\ xt.rets[1] = << >>
  /\ xt.rets[2] # << >>
  /\ xt.st.failed_extractions = 1
  /\ xt.st.successful_extractions = 1

\* ------------------------------------------------------------------------
\* Several hits of one URL in a batch
\* ------------------------------------------------------------------------
\* C28: when a batch holds several hits of one canonical URL and one of
\* them has an extractable name, extract_all_profiles returns a profile of
\* that URL; an earlier hit of the URL without a name does not make the
\* later one a duplicate.
C28_ExtractableHitNotShadowed ==
  xt.pc = "returned" =>
    \A i \in 1..Len(xt.items) :
      ExtractsAlone(xt.items[i]) # << >> =>
        \E k \in 1..Len(xt.profiles) :
          xt.profiles[k].profile_url = ExtractsAlone(xt.items[i])[1].profile_url

\* the hit with a name was counted as a duplicate of the hit without one
C28_Shadowed ==
  /\ xt.pc = "returned"
  /\ Len(xt.items) = 2
  /\ clean_linkedin_url(xt.items[1].link) = clean_linkedin_url(xt.items[2].link)
  /\ xt.items[1].title = EMPTY
  /\ ExtractsAlone(xt.items[2]) # << >>
  /\ xt.profiles = << >>
  /\ xt.st.failed_extractions = 1
  /\ xt.st.duplicate_profiles_removed = 1

\* ------------------------------------------------------------------------
\* Enrichment batches run again and again
\* ------------------------------------------------------------------------
\* a payload with a non-empty industries list and a size
GoodPayload ==
  CHOOSE p \in Payloads : p.d.Industries = "[x]" /\ p.d.Size_Employees # NULL

\* The next run of the pipeline with the limit of the runs before it.
\* en.failing holds the companies whose fetch fails every time.
EnrichAgain(fetcher, limit) ==
  /\ en.pc \in {"idle", "done", "failed"}
  /\ en.pc # "idle" => (limit = en.limit /\ fetcher = en.fetcher)
  /\ \E rows \in select_pending_enrichment(companies, limit) :
       en' = [pc |-> "fetching", fetcher |-> fetcher, batch |-> PendingBatch(rows),
              st |-> [i \in 1..Len(rows) |-> "queued"],
              out |-> [i \in 1..Len(rows) |-> None],
              results |-> << >>, next |-> 1, updated |-> 0, err |-> NULL,
              snapshot |-> companies, limit |-> limit, failing |-> en.failing]
  /\ lastCall' = [op |-> "LoadPendingCompanies", limit |-> limit]
  /\ UNCHANGED <<people, companies, outreach, seq, hist, dd, ing, xt, queries>>

\* the task of company i returns what the fetch of that company always gives
WorkerFinishAsAlways(i) ==
  /\ i \in Running
  /\ WorkerFinish(i, IF en.batch[i].id \in en.failing THEN None ELSE GoodPayload)

InitEnrichRepeat ==
  /\ people = {}
  /\ outreach = {}
  /\ \E n \in 1..MaxCompanies : \E done \in SUBSET (1..n) : \E failing \in SUBSET (1..n) :
       /\ Cardinality(failing) <= 1
       /\ companies = {SeedCompany(i, i \in done) : i \in 1..n}
       /\ seq = [people |-> 0, companies |-> n]
       /\ en = [pc |-> "idle", failing |-> failing]
  /\ lastCall = NoCall
  /\ hist = InitHist
  /\ dd = NoRun
  /\ ing = NoRun
  /\ xt = NoRun
  /\ queries = {}

NextEnrichRepeat ==
  \/ \E fetcher \in {"fetch_func", "_gateway_fetch"}, limit \in 1..MaxBatch :
       EnrichAgain(fetcher, limit)
  \/ \E i \in 1..MaxBatch : WorkerStart(i)
  \/ \E i \in 1..MaxBatch : WorkerFinishAsAlways(i)
  \/ EnrichCheck
  \/ EnrichPersist
  \/ EnrichReturn

\* the batches are run again and again and every step of a run is taken
SpecEnrichRepeat ==
  InitEnrichRepeat /\ [][NextEnrichRepeat]_vars /\ WF_vars(NextEnrichRepeat)

IsPending(id) == \E r \in PendingRows(companies) : r.id = id

\* C29: when batches are run repeatedly with a fixed limit, every pending
\* company whose own fetch always succeeds with a non-empty industries list
\* and a size is eventually enriched and leaves the pending set, even when
\* the fetch of another pending company always fails.
C29_GoodCompanyEventuallyEnriched ==
  \A id \in 1..MaxCompanies :
    (IsPending(id) /\ id \notin en.failing) ~> ~IsPending(id)

\* the same statement for the runs in which no fetch fails
AllGoodEventuallyEnriched ==
  \A id \in 1..MaxCompanies :
    (IsPending(id) /\ en.failing = {}) ~> ~IsPending(id)

\* a batch that holds the failing company was aborted and the company
\* whose fetch succeeded is still pending
C29_Starved ==
  /\ en.pc = "failed"
  /\ en.err = "RuntimeError"
  /\ \E i, j \in 1..Len(en.batch) :
       /\ en.batch[i].id \in en.failing
       /\ en.batch[j].id \notin en.failing
       /\ IsPending(en.batch[j].id)

\* ------------------------------------------------------------------------
\* cmd_dedupe_people run twice
\* ------------------------------------------------------------------------
\* the command is run again right after a run that reached conn.commit();
\* first keeps the tables the first run started from
DedupeAgain ==
  /\ dd.pc = "done"
  /\ "first" \notin DOMAIN dd
  /\ dd' = [pc |-> "groups", keys |-> DuplicateKeys(people), key |-> NoUrl,
            primary |-> NoId, dups |-> << >>, merged |-> 0, err |-> NULL,
            people |-> people, outreach |-> outreach,
            before |-> [people |-> people, outreach |-> outreach],
            first |-> dd.before]
  /\ lastCall' = [op |-> "cmd_dedupe_people"]
  /\ UNCHANGED <<people, outreach>>
  /\ DedupeIdle

NextDedupeTwice ==
  \/ NextDedupe
  \/ DedupeAgain

SpecDedupeTwice == InitDedupe /\ [][NextDedupeTwice]_vars

OneRowPerIdentity ==
  \A r1, r2 \in people :
    r1.id # r2.id => NormKey(r1.linkedin_profile) # NormKey(r2.linkedin_profile)

\* C30: after a run of cmd_dedupe_people no two people rows normalize to
\* the same identity, and a second run right afterwards merges 0 rows and
\* leaves people and outreach_messages as they were.
C30_DedupeIdempotent ==
  dd.pc = "done" =>
    /\ OneRowPerIdentity
    /\ "first" \in DOMAIN dd =>
         /\ lastCall.merged = 0
         /\ people = dd.before.people
         /\ outreach = dd.before.outreach

\* the second run merged a row
C30_SecondRunMerged ==
  /\ dd.pc = "done"
  /\ "first" \in DOMAIN dd
  /\ lastCall.merged = 1
  /\ Cardinality(people) < Cardinality(dd.before.people)

\* the same statement for stores whose identities are stable under
\* normalization (normalizing a normalized identity gives it back)
StableIdentities ==
  \A r \in dd.first.people :
    NormKey(NormKey(r.linkedin_profile)) = NormKey(r.linkedin_profile)

DedupeIdempotentOnStableIdentities ==
  (dd.pc = "done" /\ "first" \in DOMAIN dd /\ StableIdentities) =>
    /\ OneRowPerIdentity
    /\ lastCall.merged = 0
    /\ people = dd.before.people
    /\ outreach = dd.before.outreach

====
